---- MODULE Spec2Model ----
(***************************************************************************)
(* CRM integration of KIBERoneResumesDRF (app_resumes/crm_integration.py): *)
(* the Redis token slot, login_to_alfa_crm, make_authenticated_request,    *)
(* the branch-scoped domain calls, get_group_clients_from_crm and the      *)
(* pagination of get_all_groups; the Group, Student and TutorProfile       *)
(* tables (app_resumes/models.py), the sync_groups and sync_students        *)
(* commands, the register_tutor and login_tutor views, the token-protected *)
(* views of app_resumes/views.py behind the routes of app_resumes/urls.py, *)
(* and concurrent callers of the token slot.                               *)
(***************************************************************************)
EXTENDS Integers, Sequences, FiniteSets, TLC

VARIABLES
    cache,      \* Redis slot "crm_auth_token": [tok, exp]
    now,        \* wall clock, seconds
    cfg,        \* settings.CRM_API_URL / CRM_EMAIL / CRM_API_KEY are non-empty
    issued,     \* history: token last returned by a CRM auth call, and when
    last,       \* the last completed call: its inputs and what the caller saw
    ag,         \* get_all_groups in progress: locals of the function
    gc,         \* get_group_clients_from_crm in progress: locals of the function
    groups,     \* table of Group rows
    students,   \* table of Student rows
    tutors,     \* table of TutorProfile rows
    pks,        \* next AutoField value of each table
    out,        \* the last finished command or request: its inputs and result
    resumes,    \* table of Resume rows
    race        \* concurrent CRM calls in progress: the locals of each

store == <<groups, students, tutors, pks, out, resumes, race>>
vars ==
    <<cache, now, cfg, issued, last, ag, gc, groups, students, tutors, pks, out,
      resumes, race>>

\* ---------------------------------------------------------------- bounds
MaxTime == 7200
TickSeconds == 1800
MaxPages == 2
MaxPageItems == 1
MaxIds == 2

\* ------------------------------------------------------- program constants
TokenTTL == 3600
Branches == <<1, 2, 3, 4>>

\* ------------------------------------------------------------ Python values
None == "None"
Tokens == {"tokA", "tokB"}

\* truth value of an Optional[str]: None and "" are falsy
Truthy(x) == x # None /\ x # ""

\* isinstance(e, cls) over the exception classes the module can see
IsInstance(e, cls) ==
    IF e = "none" THEN FALSE
    ELSE IF cls = "Exception" THEN TRUE
    ELSE IF cls = "RequestException"
         THEN e \in {"RequestException", "Timeout", "ConnectionError", "HTTPError"}
    ELSE e = cls

\* ------------------------------------------------------------- Redis slot
EmptyCache == [tok |-> None, exp |-> 0]

\* a GET that ignores the expiry
redis_get_noexp(c, t) == c.tok

\* GET: the value while its expiry lies ahead; the read does not move it
redis_get(c, t) == IF c.tok # None /\ t < c.exp THEN c.tok ELSE None

\* SETEX key ttl value
redis_setex(c, t, ttl, v) == [tok |-> v, exp |-> t + ttl]

\* DEL key
redis_delete(c) == EmptyCache

clear_crm_auth_token(c) == redis_delete(c)

\* ------------------------------------------------- what the CRM may answer
\* POST {base}/v2api/auth/login
AuthOutcomes ==
    {[exc |-> e, status |-> 0, body |-> "none", token |-> None] :
        e \in {"Timeout", "ConnectionError"}}
    \cup {[exc |-> "none", status |-> 500, body |-> "json", token |-> None]}
    \cup {[exc |-> "none", status |-> 200, body |-> "token", token |-> t] :
        t \in Tokens \cup {""}}
    \cup {[exc |-> "none", status |-> 200, body |-> b, token |-> None] :
        b \in {"notoken", "malformed", "notdict"}}

NoAuth == [exc |-> "none", status |-> 0, body |-> "unused", token |-> None]

\* an authenticated POST; seq is the number of the HTTP call that produced it
Statuses == {200, 401, 500}
NetErrors == {"Timeout", "ConnectionError", "RequestException"}
RespOutcomes ==
    {[exc |-> e, status |-> 0, seq |-> 0] : e \in NetErrors}
    \cup {[exc |-> "none", status |-> s, seq |-> 0] : s \in Statuses}

NoResp == [exc |-> "none", status |-> 0, seq |-> 0]

ConfigOK(g) == g.url /\ g.email /\ g.key

\* ------------------------------------------------------ login_to_alfa_crm
\* the token is never written / is written even when falsy
store_token_never(c, t, token) == c
store_token_always(c, t, token) == redis_setex(c, t, TokenTTL, token)

\* "if token: redis_client.setex(...)"
store_token(c, t, token) ==
    IF Truthy(token) THEN redis_setex(c, t, TokenTTL, token) ELSE c

\* the try block: the POST and the handling of its answer
login_try(c, t, a) ==
    IF a.exc # "none" THEN [exc |-> a.exc, ret |-> None, cache |-> c]
    ELSE IF a.status = 200 THEN
        IF a.body = "malformed" THEN [exc |-> "ValueError", ret |-> None, cache |-> c]
        ELSE IF a.body = "notdict" THEN [exc |-> "AttributeError", ret |-> None, cache |-> c]
        ELSE IF a.body = "token"
        THEN [exc |-> "none", ret |-> a.token, cache |-> store_token(c, t, a.token)]
        ELSE [exc |-> "none", ret |-> None, cache |-> store_token(c, t, None)]
    ELSE [exc |-> "none", ret |-> None, cache |-> c]

\* the except clauses of login_to_alfa_crm applied to the outcome r of the try
\* block: each of them returns None
login_except(r) ==
    IF IsInstance(r.exc, "Timeout")
    THEN [ret |-> None, exc |-> "none", cache |-> r.cache, nAuth |-> 1, hit |-> FALSE]
    ELSE IF IsInstance(r.exc, "ConnectionError")
    THEN [ret |-> None, exc |-> "none", cache |-> r.cache, nAuth |-> 1, hit |-> FALSE]
    ELSE IF IsInstance(r.exc, "Exception")
    THEN [ret |-> None, exc |-> "none", cache |-> r.cache, nAuth |-> 1, hit |-> FALSE]
    ELSE [ret |-> r.ret, exc |-> r.exc, cache |-> r.cache, nAuth |-> 1, hit |-> FALSE]

\* the head of login_to_alfa_crm, cached_token being what the slot returned
login_cached(cached_token, c, t, g, a) ==
    IF Truthy(cached_token)
    THEN [ret |-> cached_token, exc |-> "none", cache |-> c, nAuth |-> 0, hit |-> TRUE]
    ELSE IF ~g.url \/ ~g.email \/ ~g.key
    THEN [ret |-> None, exc |-> "none", cache |-> c, nAuth |-> 0, hit |-> FALSE]
    ELSE login_except(login_try(c, t, a))

\* result: ret the returned value, exc what is raised to the caller,
\* nAuth the POSTs to the auth endpoint, hit whether the slot answered
login_to_alfa_crm(c, t, g, a) == login_cached(redis_get(c, t), c, t, g, a)

\* the auth answers worth enumerating for a login at (c, t, g)
AuthChoices(c, t, g) ==
    IF Truthy(redis_get(c, t)) \/ ~ConfigOK(g) THEN {NoAuth} ELSE AuthOutcomes

\* --------------------------------------------- make_authenticated_request
\* a handler that logs and does not re-raise
reraise_swallow(e) == "none"

\* "except ...: logger.error(...); raise": the handler re-raises what it caught
reraise(e) == e

\* "if new_token is None"
refresh_failed_none(new_token) == new_token = None

\* "if not new_token": the refresh failed
refresh_failed(new_token) == ~Truthy(new_token)

\* the retry goes out with the headers it was given
retry_token_stale(tok, new_token) == tok

\* headers["X-ALFACRM-TOKEN"] = new_token
retry_token(tok, new_token) == new_token

\* the 401 branch after the slot was cleared and login_to_alfa_crm returned L
retry_after_login(L, tok, r1, r2) ==
    IF refresh_failed(L.ret)
    THEN [exc |-> L.exc, resp |-> [r1 EXCEPT !.seq = 1], cache |-> L.cache,
          nReq |-> 1, nLogin |-> 1, nClear |-> 1, nAuth |-> L.nAuth,
          sent |-> <<tok>>, new_token |-> L.ret, hit |-> L.hit]
    ELSE IF r2.exc # "none"
    THEN [exc |-> reraise(r2.exc), resp |-> NoResp, cache |-> L.cache,
          nReq |-> 2, nLogin |-> 1, nClear |-> 1, nAuth |-> L.nAuth,
          sent |-> <<tok, retry_token(tok, L.ret)>>, new_token |-> L.ret,
          hit |-> L.hit]
    ELSE [exc |-> "none", resp |-> [r2 EXCEPT !.seq = 2], cache |-> L.cache,
          nReq |-> 2, nLogin |-> 1, nClear |-> 1, nAuth |-> L.nAuth,
          sent |-> <<tok, retry_token(tok, L.ret)>>, new_token |-> L.ret,
          hit |-> L.hit]

\* tok: X-ALFACRM-TOKEN of the headers passed in; r1, r2: what the CRM does
\* with the first request and with the retry; a: what it does with the login
make_authenticated_request(c, t, g, tok, r1, a, r2) ==
    IF r1.exc # "none"
    THEN [exc |-> reraise(r1.exc), resp |-> NoResp, cache |-> c, nReq |-> 1, nLogin |-> 0,
          nClear |-> 0, nAuth |-> 0, sent |-> <<tok>>, new_token |-> None, hit |-> FALSE]
    ELSE IF r1.status = 401
    THEN retry_after_login(login_to_alfa_crm(clear_crm_auth_token(c), t, g, a), tok, r1, r2)
    ELSE [exc |-> "none", resp |-> [r1 EXCEPT !.seq = 1], cache |-> c, nReq |-> 1,
          nLogin |-> 0, nClear |-> 0, nAuth |-> 0, sent |-> <<tok>>, new_token |-> None,
          hit |-> FALSE]

\* the login and retry answers worth enumerating after a first answer r1
RetryAuthChoices(g, r1) ==
    IF r1.exc = "none" /\ r1.status = 401 /\ ConfigOK(g) THEN AuthOutcomes ELSE {NoAuth}

RetryChoices(r1, a) ==
    IF r1.exc = "none" /\ r1.status = 401 /\ a.body = "token" /\ a.token # None
    THEN RespOutcomes ELSE {NoResp}

\* ------------------------------------------------------------ domain calls
\* JSON bodies of a 200 answer: kind "dict" is an object whose "items" is items
NoBody == [kind |-> "unused", items |-> <<>>]
BadBodies == {[kind |-> k, items |-> <<>>] : k \in {"malformed", "notdict"}}
DictBodies(S) == {[kind |-> "dict", items |-> i] : i \in S}

Teacher1 == [id |-> 42]
Teacher2 == [id |-> 43]
TutorBodies == BadBodies \cup DictBodies({<<>>, <<Teacher1>>, <<Teacher2, Teacher1>>})

\* a customer record; name None stands for a record without the "name" key
Client1 == [name |-> "Ann"]
Client2 == [name |-> None]
ClientBodies ==
    BadBodies \cup DictBodies({<<>>, <<Client1>>, <<Client2>>, <<Client1, Client2>>})

\* a group record with the ids of its "teachers" list
Group1 == [id |-> 1, teachers |-> {42}]
Group2 == [id |-> 2, teachers |-> {43}]
GroupBodies == BadBodies \cup DictBodies({<<>>, <<Group1>>, <<Group2>>, <<Group1, Group2>>})

BranchArgs == {None, "", "1"}

\* the key check is forgotten
no_branch_or_key_branch_only(branch, g) == ~Truthy(branch)

\* "if not branch or not settings.CRM_API_KEY"
no_branch_or_key(branch, g) == ~Truthy(branch) \/ ~g.key

\* response.raise_for_status(); result = response.json(); result.get(...):
\* what the try block raises after make_authenticated_request returned R
response_exc(R, body) ==
    IF R.exc # "none" THEN R.exc
    ELSE IF R.resp.status >= 400 THEN "HTTPError"
    ELSE IF body.kind = "malformed" THEN "ValueError"
    ELSE IF body.kind = "notdict" THEN "AttributeError"
    ELSE "none"

\* the try block up to response.json(), R being what make_authenticated_request
\* did with the token that the login L returned
fetch_response(L, R, body) ==
    [stage |-> "fetched", exc |-> response_exc(R, body), body |-> body, cache |-> R.cache,
     nReq |-> R.nReq, nLogin |-> 1 + R.nLogin, nClear |-> R.nClear,
     nAuth |-> L.nAuth + R.nAuth, token |-> L.ret, tok2 |-> R.new_token, read |-> TRUE]

\* "token = login_to_alfa_crm(); if not token: return None" and the request
fetch_with_token(L, t, g, r1, a, r2, body) ==
    IF ~Truthy(L.ret)
    THEN [stage |-> "notoken", exc |-> "none", body |-> NoBody, cache |-> L.cache,
          nReq |-> 0, nLogin |-> 1, nClear |-> 0, nAuth |-> L.nAuth,
          token |-> L.ret, tok2 |-> None, read |-> TRUE]
    ELSE fetch_response(L, make_authenticated_request(L.cache, t, g, L.ret, r1, a, r2), body)

\* the part the four domain calls share: guard, login, request,
\* raise_for_status and response.json().  stage tells how far it got; exc is
\* what the try block raised.
crm_fetch(c, t, g, branch, a0, r1, a, r2, body) ==
    IF no_branch_or_key(branch, g)
    THEN [stage |-> "guard", exc |-> "none", body |-> NoBody, cache |-> c, nReq |-> 0,
          nLogin |-> 0, nClear |-> 0, nAuth |-> 0, token |-> None, tok2 |-> None,
          read |-> FALSE]
    ELSE fetch_with_token(login_to_alfa_crm(c, t, g, a0), t, g, r1, a, r2, body)

\* only "except requests.HTTPError" is there
domain_except_http_only(e) == IF IsInstance(e, "HTTPError") THEN "none" ELSE e

\* the three except clauses of a domain call: each returns None
domain_except(e) ==
    IF IsInstance(e, "HTTPError") THEN "none"
    ELSE IF IsInstance(e, "RequestException") THEN "none"
    ELSE IF IsInstance(e, "Exception") THEN "none"
    ELSE e

\* isNone: the call returns None (ret is then the string None)
domain_result(F, has, value) ==
    [ret |-> IF F.stage = "fetched" /\ F.exc = "none" /\ has THEN value ELSE None,
     isNone |-> ~(F.stage = "fetched" /\ F.exc = "none" /\ has),
     exc |-> domain_except(F.exc), cache |-> F.cache, nReq |-> F.nReq,
     nLogin |-> F.nLogin, nClear |-> F.nClear, nAuth |-> F.nAuth, token |-> F.token,
     tok2 |-> F.tok2, read |-> F.read, shape |-> F.body.kind]

\* items = result.get("items", []); return items[0] or None
first_item(F, items) ==
    domain_result(F, Len(items) > 0, IF Len(items) > 0 THEN items[1] ELSE None)

tutor_of(F) == first_item(F, F.body.items)

get_tutor_data_from_crm(c, t, g, branch, a0, r1, a, r2, body) ==
    tutor_of(crm_fetch(c, t, g, branch, a0, r1, a, r2, body))

client_of(F) == first_item(F, F.body.items)

get_client_data_from_crm(c, t, g, branch, a0, r1, a, r2, body) ==
    client_of(crm_fetch(c, t, g, branch, a0, r1, a, r2, body))

\* int(tutor_crm_id) if tutor_crm_id.isdigit() else tutor_crm_id
TutorIds == {"42", "x7"}
teacher_id_int(tutor_crm_id) == IF tutor_crm_id = "42" THEN 42 ELSE -1

RECURSIVE filter_groups(_, _)
filter_groups(all_groups, tid) ==
    IF all_groups = <<>> THEN <<>>
    ELSE LET rest == filter_groups(Tail(all_groups), tid) IN
         IF tid \in Head(all_groups).teachers THEN <<Head(all_groups)>> \o rest ELSE rest

filtered_groups(F, all_groups, tutor_crm_id) ==
    domain_result(F, Len(all_groups) > 0,
                  IF Len(all_groups) > 0
                  THEN filter_groups(all_groups, teacher_id_int(tutor_crm_id))
                  ELSE None)

tutor_groups_of(F, tutor_crm_id) == filtered_groups(F, F.body.items, tutor_crm_id)

get_tutor_groups_from_crm(c, t, g, tutor_crm_id, branch, a0, r1, a, r2, body) ==
    tutor_groups_of(crm_fetch(c, t, g, branch, a0, r1, a, r2, body), tutor_crm_id)

\* the CRM answers worth enumerating for a domain call at (c, t, g, branch)
FirstAuthChoices(c, t, g, branch) ==
    IF no_branch_or_key(branch, g) THEN {NoAuth} ELSE AuthChoices(c, t, g)

FirstRespChoices(c, t, g, branch, a0) ==
    IF no_branch_or_key(branch, g) THEN {NoResp}
    ELSE IF Truthy(redis_get(c, t)) \/ (ConfigOK(g) /\ a0.body = "token" /\ Truthy(a0.token))
    THEN RespOutcomes ELSE {NoResp}

BodyChoices(r1, r2, S) ==
    IF r1.status = 200 \/ r2.status = 200 THEN S ELSE {NoBody}

\* ------------------------------------------------ get_group_clients_from_crm
CustomerIds == {7, 8}
NotFoundName == "Client not found"
UnknownName == "Unknown client"

RECURSIVE SeqsUpTo(_, _)
SeqsUpTo(S, n) ==
    IF n = 0 THEN {<<>>}
    ELSE LET shorter == SeqsUpTo(S, n - 1) IN
         shorter \cup {Append(q, x) : q \in {q \in shorter : Len(q) = n - 1}, x \in S}

\* cgi/index answers: the customer_id of every item; MissingId stands for an
\* item without the "customer_id" key
MissingId == 0
ListBodies ==
    BadBodies \cup DictBodies(SeqsUpTo(CustomerIds, MaxIds) \cup {<<7, MissingId>>})

\* [customer_id["customer_id"] for customer_id in result.get("items", [])]
listing_raises(items) == \E i \in 1..Len(items) : items[i] = MissingId

\* the loop body drops the name of a failed lookup
append_name_skip(client_names, found, client_data) ==
    IF found
    THEN Append(client_names,
                IF client_data.name # None THEN client_data.name ELSE UnknownName)
    ELSE client_names

\* the loop body: client_data.get("name", ...) or the placeholder; found is
\* the truth value of client_data
append_name(client_names, found, client_data) ==
    IF found
    THEN Append(client_names,
                IF client_data.name # None THEN client_data.name ELSE UnknownName)
    ELSE Append(client_names, NotFoundName)

Min(x, y) == IF x <= y THEN x ELSE y

\* [{"customer_id": .., "client_name": ..} for .. in zip(customer_ids, client_names)]
zip_clients(customer_ids, client_names) ==
    [i \in 1..Min(Len(customer_ids), Len(client_names)) |->
        [customer_id |-> customer_ids[i], client_name |-> client_names[i]]]

\* ------------------------------------------------------------ get_all_groups
\* what the CRM holds for one branch: the sizes of its non-empty pages (every
\* later page is empty) and the "total" its answers report (0: none reported)
RECURSIVE Sum(_)
Sum(q) == IF q = <<>> THEN 0 ELSE Head(q) + Sum(Tail(q))

Scripts ==
    {[sizes |-> q, total |-> n] :
        q \in SeqsUpTo(1..MaxPageItems, MaxPages), n \in 0..(MaxPages * MaxPageItems)}

BranchData == {sc \in Scripts : sc.total \in {0, Sum(sc.sizes)}}

NoScript == [sizes |-> <<>>, total |-> 0]

\* result.get("items", []) of page number page (from 0) of branch b: the items
\* are named by branch and position
page_items(b, sc, page) ==
    IF page < Len(sc.sizes)
    THEN LET before == Sum(SubSeq(sc.sizes, 1, page)) IN
         [k \in 1..sc.sizes[page + 1] |-> <<b, before + k>>]
    ELSE <<>>

\* "if len(all_items) >= total > 0"
collected_all(all_items, total) == Len(all_items) >= total /\ total > 0

\* only HTTPError is handled in the page loop
page_except_http_only(e) == IF IsInstance(e, "HTTPError") THEN "none" ELSE e

\* the three except clauses of the page loop: each breaks out of the loop
page_except(e) ==
    IF IsInstance(e, "HTTPError") THEN "none"
    ELSE IF IsInstance(e, "RequestException") THEN "none"
    ELSE IF IsInstance(e, "Exception") THEN "none"
    ELSE e

PageBodyKinds == {"dict", "malformed", "notdict"}

\* a CRM that need not run out of pages: after the pages of sizes, every page
\* is empty (endless FALSE) or every page holds one more item (endless TRUE:
\* the listing grows, or the server ignores "page")
Pagings ==
    [sizes : SeqsUpTo(1..MaxPageItems, MaxPages), total : 0..(MaxPages * MaxPageItems),
     endless : BOOLEAN]

NoPaging == [sizes |-> <<>>, total |-> 0, endless |-> FALSE]

\* result.get("items", []) of that CRM
crm_page(b, sc, page) ==
    IF sc.endless /\ page >= Len(sc.sizes) THEN << <<b, 0>> >>
    ELSE page_items(b, sc, page)

\* what one request of the page loop ends as: a response with a body, or an
\* exception of make_authenticated_request, raise_for_status or json()
PageOutcomes == {"none", "HTTPError", "ConnectionError", "ValueError"}

\* all_items is kept up to the largest total a response reports: the test
\* "len(all_items) >= total" does not tell longer lists apart
extend_items(all_items, items) ==
    SubSeq(all_items \o items, 1, Min(Len(all_items \o items), MaxPages * MaxPageItems))

\* "page += 1"; the page numbers beyond the listed pages are kept as one
\* (every CRM of Pagings answers them alike), "odd" in the locals being the
\* parity of the pages read
next_page(page) == IF page > MaxPages THEN MaxPages + 1 ELSE page + 1

\* ------------------------------------------------------- the local store
MaxGroupPk == 2
MaxStudentPk == 2
MaxTutorPk == 2

\* a JSON value of a JSONField: a list of integers, one integer, or null
JList(q) == [t |-> "list", v |-> q]
JInt(k) == [t |-> "int", v |-> <<k>>]
JNull == [t |-> "null", v |-> <<>>]

\* an integer column without a number: what dict.get gives for a missing key
NoId == 0
\* a null foreign key
NullId == 0

\* "x = x[0] if x[0] else None" under "isinstance(x, list) and len(x) > 0";
\* the element 0 is falsy
first_or_none(x) ==
    IF x.t = "list" /\ Len(x.v) > 0
    THEN IF x.v[1] # 0 THEN JInt(x.v[1]) ELSE JNull
    ELSE x

\* Group.save before super().save()
Group_save(row) ==
    [row EXCEPT !.branch_ids = first_or_none(@), !.teacher_ids = first_or_none(@)]

\* the columns of Group declared without null=True (crm_group_id, branch_ids,
\* teacher_ids, name; level_id, status_id and limit behave as name does)
group_not_null(row) ==
    /\ row.crm_group_id # NoId
    /\ row.branch_ids # JNull
    /\ row.teacher_ids # JNull
    /\ row.name # None

\* crm_group_id = IntegerField(unique=True): no other row holds the value
group_unique(rows, row) ==
    \A g \in rows : g.id # row.id => g.crm_group_id # row.crm_group_id

\* super().save() of a Group: INSERT or UPDATE of the row with primary key
\* row.id under the constraints of the table
write_group(db, row) ==
    IF group_not_null(row) /\ group_unique(db.groups, row)
    THEN [exc |-> "none",
          db |-> [db EXCEPT !.groups = {g \in @ : g.id # row.id} \cup {row},
                            !.group_pk = IF row.id = @ THEN @ + 1 ELSE @]]
    ELSE [exc |-> "IntegrityError", db |-> db]

\* the create path leaves teacher_ids out
group_defaults_no_teachers(d) ==
    [branch_ids |-> d.branch_ids, teacher_ids |-> JList(<<>>), name |-> d.name]

\* defaults={...} of get_or_create: the mirrored fields of the CRM record
group_defaults(d) ==
    [branch_ids |-> d.branch_ids, teacher_ids |-> d.teacher_ids, name |-> d.name]

\* a Group instance with the mirrored fields f
group_with(pk, crm_group_id, f) ==
    [id |-> pk, crm_group_id |-> crm_group_id, branch_ids |-> f.branch_ids,
     teacher_ids |-> f.teacher_ids, name |-> f.name]

\* Group.objects.get(crm_group_id=...): the matching rows (NULL matches none)
groups_by_crm_id(db, crm_group_id) ==
    {g \in db.groups : g.crm_group_id = crm_group_id /\ crm_group_id # NoId}

\* "if not created:" every mirrored field is assigned from the CRM record
group_overwrite(g, d) ==
    [g EXCEPT !.branch_ids = d.branch_ids, !.teacher_ids = d.teacher_ids,
              !.name = d.name]

\* one iteration of "for group_data in groups_data": get_or_create, then the
\* update of a Group that existed
group_item(db, d, found) ==
    IF Cardinality(found) > 1 THEN [exc |-> "MultipleObjectsReturned", db |-> db]
    ELSE IF found = {}
    THEN write_group(db, Group_save(group_with(db.group_pk, d.id, group_defaults(d))))
    ELSE write_group(db, Group_save(group_overwrite(CHOOSE g \in found : TRUE, d)))

\* only database errors are caught
handle_except_db_only(e) == IF e = "IntegrityError" THEN "none" ELSE e

\* "except Exception as e" around the body of Command.handle: the error is
\* printed, nothing is raised
handle_except(e) == IF IsInstance(e, "Exception") THEN "none" ELSE e

\* what the command did (R) and what it raises to its caller
command_result(R) ==
    [db |-> R.db, error |-> R.error, synced_count |-> R.synced_count,
     failedAt |-> R.failedAt, raised |-> handle_except(R.error)]

\* the loop after its iteration i ended as r: the exception leaves the loop
RECURSIVE groups_loop(_, _, _)
groups_step(r, db, items, i) ==
    IF r.exc # "none"
    THEN [db |-> db, error |-> r.exc, synced_count |-> i - 1, failedAt |-> i]
    ELSE groups_loop(r.db, items, i + 1)

\* "for group_data in groups_data" from item i on
groups_loop(db, items, i) ==
    IF i > Len(items)
    THEN [db |-> db, error |-> "none", synced_count |-> Len(items), failedAt |-> 0]
    ELSE groups_step(group_item(db, items[i], groups_by_crm_id(db, items[i].id)),
                     db, items, i)

\* sync_groups: Command.handle on what get_all_groups() returned (a falsy
\* answer, None or [], ends the command with a warning)
sync_groups(db, items) ==
    command_result(IF items = <<>>
                   THEN [db |-> db, error |-> "none", synced_count |-> 0, failedAt |-> 0]
                   ELSE groups_loop(db, items, 1))

\* group records of the CRM: id, branch_ids, teacher_ids, name
CrmGroup(i, b, t, n) == [id |-> i, branch_ids |-> b, teacher_ids |-> t, name |-> n]
G1 == CrmGroup(1, JList(<<1>>), JList(<<42>>), "A")
G1n == CrmGroup(1, JList(<<1>>), JList(<<42>>), "B")
G1x == CrmGroup(1, JList(<<1>>), JList(<<42>>), None)
G2 == CrmGroup(2, JList(<<>>), JList(<<>>), "B")
G2t == CrmGroup(2, JList(<<>>), JList(<<43>>), "B")
CrmGroups == {G1, G1n, G1x, G2, G2t}

\* what get_all_groups() may return; <<>> also stands for None
GroupsData ==
    {<<>>} \cup {<<d>> : d \in CrmGroups}
    \cup {<<G1, G2>>, <<G2, G1n>>, <<G1, G1n>>, <<G1x, G2>>, <<G2t, G1x>>}

\* ---------------------------------------------------------- sync_students
\* a customer id that is not a number (int() of it raises ValueError)
BadId == -1

\* group = ForeignKey("Group", null=True): null or the id of a stored Group
student_fk(db, row) ==
    row.group_id = NullId \/ \E g \in db.groups : g.id = row.group_id

\* student_crm_id = IntegerField(unique=True)
student_unique(rows, row) ==
    \A s \in rows : s.id # row.id => s.student_crm_id # row.student_crm_id

\* Student.save: INSERT or UPDATE of the row with primary key row.id
write_student(db, row) ==
    IF student_fk(db, row) /\ student_unique(db.students, row)
    THEN [exc |-> "none",
          db |-> [db EXCEPT !.students = {s \in @ : s.id # row.id} \cup {row},
                            !.student_pk = IF row.id = @ THEN @ + 1 ELSE @]]
    ELSE [exc |-> "IntegrityError", db |-> db]

\* Student.objects.get(student_crm_id=customer_id)
students_by_crm_id(db, customer_id) ==
    {s \in db.students : s.student_crm_id = customer_id}

\* a Student that exists is left where it is
student_repoint_never(db, s, group_id, client_name) == [exc |-> "none", db |-> db]

\* "if not created and student.group_id != group.id": repoint and save
student_repoint(db, s, group_id, client_name) ==
    IF s.group_id # group_id
    THEN write_student(db, [s EXCEPT !.group_id = group_id])
    ELSE [exc |-> "none", db |-> db]

\* the test is only "if customer_id"
client_usable_id_only(client) == client.customer_id # NoId

\* "if customer_id and client_name"
client_usable(client) == client.customer_id # NoId /\ Truthy(client.client_name)

\* get_or_create(student_crm_id=customer_id, defaults={...}) and the update
\* of a Student that existed
student_upsert(db, group_id, client, found) ==
    IF client.customer_id = BadId THEN [exc |-> "ValueError", db |-> db]
    ELSE IF Cardinality(found) > 1 THEN [exc |-> "MultipleObjectsReturned", db |-> db]
    ELSE IF found = {}
    THEN write_student(db, [id |-> db.student_pk, student_crm_id |-> client.customer_id,
                            student_name |-> client.client_name, group_id |-> group_id])
    ELSE student_repoint(db, CHOOSE s \in found : TRUE, group_id, client.client_name)

\* the body of "for client in group_clients"
student_item(db, group_id, client) ==
    IF client_usable(client)
    THEN student_upsert(db, group_id, client, students_by_crm_id(db, client.customer_id))
    ELSE [exc |-> "none", db |-> db]

\* what the body adds to total_synced
student_counted(client) == IF client_usable(client) THEN 1 ELSE 0

\* Meta.ordering = ["name"] of Group: rows of equal name in primary key order
NameRank(n) == IF n = "A" THEN 1 ELSE 2
group_before(g, h) ==
    NameRank(g.name) < NameRank(h.name) \/ (g.name = h.name /\ g.id <= h.id)

\* Group.objects.all() as a list
RECURSIVE groups_all(_)
groups_all(rows) ==
    IF rows = {} THEN <<>>
    ELSE LET first == CHOOSE g \in rows : \A h \in rows : group_before(g, h)
         IN  <<first>> \o groups_all(rows \ {first})

\* the (group, client) pairs the two nested loops go through, in order;
\* clients[i] is what get_group_clients_from_crm returned for the group with
\* crm_group_id i (a falsy answer, None or [], contributes nothing)
RECURSIVE client_work(_, _)
client_work(gs, clients) ==
    IF gs = <<>> THEN <<>>
    ELSE [k \in 1..Len(clients[Head(gs).crm_group_id]) |->
             [group_id |-> Head(gs).id, client |-> clients[Head(gs).crm_group_id][k]]]
         \o client_work(Tail(gs), clients)

RECURSIVE students_loop(_, _, _, _)
students_step(r, counted, db, work, i, total_synced) ==
    IF r.exc # "none"
    THEN [db |-> db, error |-> r.exc, synced_count |-> total_synced, failedAt |-> i]
    ELSE students_loop(r.db, work, i + 1, total_synced + counted)

\* the nested loops from pair i on
students_loop(db, work, i, total_synced) ==
    IF i > Len(work)
    THEN [db |-> db, error |-> "none", synced_count |-> total_synced, failedAt |-> 0]
    ELSE students_step(student_item(db, work[i].group_id, work[i].client),
                       student_counted(work[i].client), db, work, i, total_synced)

\* sync_students: Command.handle ("if not groups" ends it with a warning)
sync_students(db, clients) ==
    command_result(students_loop(db, client_work(groups_all(db.groups), clients), 1, 0))

\* entries of the list get_group_clients_from_crm returns
ClientEntry(i, n) == [customer_id |-> i, client_name |-> n]
ClientAnswers ==
    {<<>>,
     <<ClientEntry(7, "Ann")>>,
     <<ClientEntry(7, "Bob")>>,
     <<ClientEntry(7, "Ann"), ClientEntry(8, "Bob")>>,
     <<ClientEntry(NoId, "Ann"), ClientEntry(8, "Bob")>>,
     <<ClientEntry(8, ""), ClientEntry(7, "Ann")>>,
     <<ClientEntry(8, "Bob"), ClientEntry(BadId, "Ann"), ClientEntry(7, "Ann")>>}

\* the answers of the CRM for the groups with crm_group_id 1 and 2
ClientsData == [{1, 2} -> ClientAnswers]

\* ------------------------------------------------- register_tutor, login_tutor
\* request fields; "" stands for a field that is missing, blank or too long
Phones == {"+375447123218", "375 44 712 3218"}
BranchIds == {"1"}

\* what get_tutor_data_from_crm returned: None (found FALSE) or a teacher
\* record with its "id" (None: no such key)
NoTutor == [found |-> FALSE, id |-> None]
TutorData == {NoTutor} \cup {[found |-> TRUE, id |-> i] : i \in {"42", "43", "x7"}}

\* str(x).isdigit()
isdigit(x) == x \in {"42", "43"}

\* TutorRegisterRequestSerializer / TutorLoginSerializer .is_valid()
field_valid(x) == x # ""

\* get_tutor_by_phone_number, authenticate_tutor
tutors_by_phone(rows, phone_number) == {t \in rows : t.phone_number = phone_number}

\* no unique constraints on TutorProfile
tutor_unique_off(rows, row) == TRUE

\* phone_number unique; tutor_crm_id unique among the rows where it is not null
tutor_unique(rows, row) ==
    \A t \in rows : t.id # row.id =>
        /\ t.phone_number # row.phone_number
        /\ (row.tutor_crm_id # None => t.tutor_crm_id # row.tutor_crm_id)

\* TutorProfile.save: INSERT or UPDATE of the row with primary key row.id
write_tutor(rows, row) ==
    IF tutor_unique(rows, row)
    THEN [exc |-> "none", rows |-> {t \in rows : t.id # row.id} \cup {row}]
    ELSE [exc |-> "IntegrityError", rows |-> rows]

\* "int(tutor_crm_id) if str(tutor_crm_id).isdigit() else None"
register_crm_id(id) == IF id # None /\ isdigit(id) THEN id ELSE None

\* a response of the view and the table it leaves; an exception that leaves
\* the view is status 500; sub is the subject of the access token in the body
\* (None: the body carries no token)
Response(status, detail, rows, crm_calls, created) ==
    [status |-> status, detail |-> detail, rows |-> rows, crm_calls |-> crm_calls,
     created |-> created, sub |-> None]

\* TutorProfile.objects.create(...) ended as w
register_created(w) ==
    IF w.exc = "none" THEN Response(201, "", w.rows, 1, TRUE)
    ELSE Response(500, w.exc, w.rows, 1, FALSE)

\* the duplicate phone is not looked for
phone_taken_never(rows, phone_number) == FALSE

\* "if existing_phone_tutor"
phone_taken(rows, phone_number) == tutors_by_phone(rows, phone_number) # {}

\* register_tutor(request)
register_tutor(rows, pk, phone_number, tutor_branch_id, tutor_data) ==
    IF ~field_valid(phone_number) \/ ~field_valid(tutor_branch_id)
    THEN Response(400, "serializer.errors", rows, 0, FALSE)
    ELSE IF phone_taken(rows, phone_number)
    THEN Response(400, "Phone number already registered", rows, 0, FALSE)
    ELSE IF ~tutor_data.found
    THEN Response(404, "Tutor not found in CRM", rows, 1, FALSE)
    ELSE register_created(write_tutor(rows,
            [id |-> pk, phone_number |-> phone_number,
             tutor_crm_id |-> register_crm_id(tutor_data.id),
             branch |-> tutor_branch_id, is_senior |-> FALSE]))

\* create_access_token(data={"sub": tutor.phone_number}) and the 200 response
\* that carries it
token_response(rows, crm_calls, tutor) ==
    [Response(200, "bearer", rows, crm_calls, FALSE) EXCEPT !.sub = tutor.phone_number]

\* tutor.save() ended as w
login_saved(w, tutor) ==
    IF w.exc = "none" THEN token_response(w.rows, 1, tutor)
    ELSE Response(500, w.exc, w.rows, 1, FALSE)

\* the stored profile is refreshed from the CRM record
login_refresh(rows, tutor, tutor_data) ==
    IF tutor_data.found
    THEN login_saved(write_tutor(rows, [tutor EXCEPT !.tutor_crm_id = tutor_data.id]),
                     tutor)
    ELSE token_response(rows, 1, tutor)

\* "if tutor.branch:" and what follows, for the profile found by phone
login_found(rows, tutor, tutor_data) ==
    IF Truthy(tutor.branch) THEN login_refresh(rows, tutor, tutor_data)
    ELSE token_response(rows, 0, tutor)

\* login_tutor(request)
login_tutor(rows, phone_number, tutor_data) ==
    IF ~field_valid(phone_number)
    THEN Response(400, "serializer.errors", rows, 0, FALSE)
    ELSE IF tutors_by_phone(rows, phone_number) = {}
    THEN Response(401, "Incorrect phone number", rows, 0, FALSE)
    ELSE login_found(rows, CHOOSE t \in tutors_by_phone(rows, phone_number) : TRUE,
                     tutor_data)

\* ------------------------------------------------------- protected views
MaxResumePk == 2
MaxWorkers == 2

\* request data: the content of a resume ("" is a blank string, None a body
\* without the key) and the student a resume is about
Contents == {"a", "b"}
StudentCrmIds == {"7"}

\* the Authorization header of a request: absent, without a second word
\* ("Bearer"), or "Bearer <token>" with a token that is expired, signed with
\* another key, or valid with the phone number sub
Headers == {"none", "malformed", "expired", "badsig", "valid"}
Creds ==
    {[header |-> h, sub |-> None] : h \in Headers \ {"valid"}}
    \cup {[header |-> "valid", sub |-> p] : p \in Phones}

\* jwt.decode under "except ExpiredSignatureError / PyJWTError: return None"
decode_access_token(cred) ==
    IF cred.header = "valid" THEN [isNone |-> FALSE, sub |-> cred.sub]
    ELSE [isNone |-> TRUE, sub |-> None]

\* the profile of the caller: a set with one TutorProfile, or {} for None
get_current_user_from_request(cred, rows) ==
    IF cred.header \in {"none", "malformed"} THEN {}
    ELSE IF decode_access_token(cred).isNone THEN {}
    ELSE tutors_by_phone(rows, decode_access_token(cred).sub)

get_current_active_tutor(cred, rows) == get_current_user_from_request(cred, rows)

\* every authenticated tutor counts as senior
get_current_senior_tutor_any(cred, rows) == get_current_user_from_request(cred, rows)

\* "if tutor and tutor.is_senior: return tutor"
get_current_senior_tutor(cred, rows) ==
    {t \in get_current_user_from_request(cred, rows) : t.is_senior}

\* a response: status, detail or message of the body, the stored rows the body
\* shows (primary keys), and the Resume table the request leaves; an
\* exception that leaves the view is status 500
Answer(status, detail, data, rs) ==
    [status |-> status, detail |-> detail, data |-> data, rs |-> rs]

Unauthorized(rs) == Answer(401, "Authentication required", {}, rs)

\* "tutor_name in group.teacher_ids": tutor_name is a string or None and the
\* elements of a list are integers, so no element equals it; an integer or
\* None on the right is "TypeError: argument of type ... is not iterable"
name_in_teacher_ids(teacher_ids) ==
    IF teacher_ids.t = "list" THEN [exc |-> "none", value |-> FALSE]
    ELSE [exc |-> "TypeError", value |-> FALSE]

\* get_tutor_groups(request)
get_tutor_groups(cred, rows, gs, rs) ==
    IF get_current_active_tutor(cred, rows) = {} THEN Unauthorized(rs)
    ELSE IF \E t \in get_current_active_tutor(cred, rows) : t.is_senior
    THEN Answer(200, "", {g.id : g \in gs}, rs)
    ELSE IF \E g \in gs : name_in_teacher_ids(g.teacher_ids).exc # "none"
    THEN Answer(500, "TypeError", {}, rs)
    ELSE Answer(200, "", {g.id : g \in {h \in gs : name_in_teacher_ids(h.teacher_ids).value}},
                rs)

\* get_group_clients(request): every exception ends as {"clients": []}
get_group_clients(cred, rows, gs, ss, group_id, rs) ==
    IF get_current_active_tutor(cred, rows) = {} THEN Unauthorized(rs)
    ELSE Answer(200, "",
                {st.id : st \in {x \in ss : \E g \in gs :
                                   g.crm_group_id = group_id /\ x.group_id = g.id}},
                rs)

\* ListAPIView.get over get_queryset(): Resume.objects.none() for a caller
\* that is not authenticated, the filtered rows otherwise
list_view(cred, rows, queryset, rs) ==
    IF get_current_active_tutor(cred, rows) = {} THEN Answer(200, "", {}, rs)
    ELSE Answer(200, "", {r.id : r \in queryset}, rs)

ResumeListView_get(cred, rows, student_crm_id, rs) ==
    list_view(cred, rows, {r \in rs.rows : r.student_crm_id = student_crm_id}, rs)

UnverifiedResumesView_get(cred, rows, rs) ==
    list_view(cred, rows, {r \in rs.rows : ~r.is_verified}, rs)

\* get_object_or_404(Resume, id=resume_id): the rows with that id
resume_by_id(rs, resume_id) == {r \in rs.rows : r.id = resume_id}

NotFound(rs) == Answer(404, "Not found.", {}, rs)

\* ResumeUpdateSerializer.is_valid(): content, when given, is not blank
update_valid(body) == body.content # ""

\* PUT also takes is_verified from the body
put_fields_with_flag(r, body) ==
    [r EXCEPT !.content = IF body.content # None THEN body.content ELSE @,
              !.is_verified = body.is_verified]

\* "if 'content' in serializer.validated_data: resume.content = ..."
put_fields(r, body) ==
    [r EXCEPT !.content = IF body.content # None THEN body.content ELSE @]

\* resume.save(): the row replaces the stored row of the same id
save_resume(rs, r) == [rs EXCEPT !.rows = {x \in @ : x.id # r.id} \cup {r}]

\* ResumeDetailView.put; "status.HTTP_40_BAD_REQUEST" is an AttributeError
ResumeDetailView_put(cred, rows, resume_id, body, rs) ==
    IF get_current_active_tutor(cred, rows) = {} THEN Unauthorized(rs)
    ELSE IF resume_by_id(rs, resume_id) = {} THEN NotFound(rs)
    ELSE IF ~update_valid(body) THEN Answer(500, "AttributeError", {}, rs)
    ELSE Answer(200, "", {resume_id},
                save_resume(rs, put_fields(CHOOSE r \in resume_by_id(rs, resume_id) : TRUE,
                                           body)))

\* VerifyResumeView.post
VerifyResumeView_post(cred, rows, resume_id, rs) ==
    IF get_current_senior_tutor(cred, rows) = {}
    THEN Answer(403, "Senior tutor access required", {}, rs)
    ELSE IF resume_by_id(rs, resume_id) = {} THEN NotFound(rs)
    ELSE Answer(200, "", {resume_id},
                save_resume(rs, [(CHOOSE r \in resume_by_id(rs, resume_id) : TRUE)
                                    EXCEPT !.is_verified = TRUE]))

\* ResumeCreateSerializer.is_valid(): student_crm_id and content are given
\* and not blank
create_valid(body) == body.content \notin {"", None} /\ body.student_crm_id # ""

\* create stores the is_verified of the body
created_row_with_flag(pk, body) ==
    [id |-> pk, student_crm_id |-> body.student_crm_id, content |-> body.content,
     is_verified |-> body.is_verified]

\* Resume.objects.create(student_crm_id=..., content=...): is_verified is the
\* default of the column
created_row(pk, body) ==
    [id |-> pk, student_crm_id |-> body.student_crm_id, content |-> body.content,
     is_verified |-> FALSE]

\* create_resume(request)
create_resume(cred, rows, body, rs) ==
    IF get_current_active_tutor(cred, rows) = {} THEN Unauthorized(rs)
    ELSE IF ~create_valid(body) THEN Answer(400, "serializer.errors", {}, rs)
    ELSE Answer(201, "", {rs.pk},
                [rows |-> rs.rows \cup {created_row(rs.pk, body)}, pk |-> rs.pk + 1])

\* the role is not looked at
delete_forbidden_never(t) == FALSE

\* "if not current_tutor.is_senior"
delete_forbidden(t) == ~t.is_senior

\* delete_resume(request, resume_id)
delete_resume(cred, rows, resume_id, rs) ==
    IF get_current_active_tutor(cred, rows) = {} THEN Unauthorized(rs)
    ELSE IF \E t \in get_current_active_tutor(cred, rows) : delete_forbidden(t)
    THEN Answer(403, "Senior tutor access required", {}, rs)
    ELSE IF resume_by_id(rs, resume_id) = {} THEN NotFound(rs)
    ELSE Answer(200, "Resume deleted successfully", {},
                [rs EXCEPT !.rows = @ \ resume_by_id(rs, resume_id)])

\* get_latest_verified_resume(request): creation order is primary-key order
get_latest_verified_resume(cred, rows, student_crm_id, rs) ==
    IF get_current_active_tutor(cred, rows) = {} THEN Unauthorized(rs)
    ELSE IF student_crm_id = ""
    THEN Answer(400, "student_crm_id parameter is required", {}, rs)
    ELSE IF {r \in rs.rows : r.student_crm_id = student_crm_id /\ r.is_verified} = {}
    THEN Answer(404, "No verified resume found for this student", {}, rs)
    ELSE Answer(200, "",
                {r.id : r \in {x \in rs.rows :
                    /\ x.student_crm_id = student_crm_id /\ x.is_verified
                    /\ \A y \in rs.rows :
                         (y.student_crm_id = student_crm_id /\ y.is_verified)
                         => y.id <= x.id}},
                rs)

\* get_tutor_detail(request): the body shows the caller's own profile
get_tutor_detail(cred, rows, rs) ==
    IF get_current_active_tutor(cred, rows) = {} THEN Unauthorized(rs)
    ELSE Answer(200, "", {t.id : t \in get_current_active_tutor(cred, rows)}, rs)

\* get_client_detail(request): the body is the CRM record or the fallback,
\* no stored row
get_client_detail(cred, rows, rs) ==
    IF get_current_active_tutor(cred, rows) = {} THEN Unauthorized(rs)
    ELSE Answer(200, "", {}, rs)

\* urls.py, the routes in their order; <int> and <str> are the converters
Route(route, view) == [route |-> route, view |-> view]
urlpatterns ==
    << Route("health/", "health_check"),
       Route("test/", "test_endpoint"),
       Route("tutors/register/", "register_tutor"),
       Route("tutors/login/", "login_tutor"),
       Route("tutors/groups/", "get_tutor_groups"),
       Route("tutors/detail/", "get_tutor_detail"),
       Route("tutors/<int>/promote-to-senior/", "promote_to_senior"),
       Route("groups/clients/", "get_group_clients"),
       Route("groups/sync/", "sync_all_groups"),
       Route("students/sync/", "sync_students_with_groups"),
       Route("clients/detail/", "get_client_detail"),
       Route("resumes/client/", "ResumeListView"),
       Route("resumes/<int>/", "ResumeDetailView"),
       Route("resumes/<int>/verify/", "VerifyResumeView"),
       Route("resumes/unverified/", "UnverifiedResumesView"),
       Route("resumes/", "create_resume"),
       Route("resumes/<int>/", "delete_resume"),
       Route("reviews/<str>/", "ParentReviewsView") >>

\* the URL resolver: the view of the first pattern that matches the path
resolve(path) ==
    IF \A i \in DOMAIN urlpatterns : urlpatterns[i].route # path THEN "no_route"
    ELSE urlpatterns[CHOOSE i \in DOMAIN urlpatterns :
                        /\ urlpatterns[i].route = path
                        /\ \A j \in 1..(i - 1) : urlpatterns[j].route # path].view

\* @api_view([...]) of a function view, the handler methods of a class view
http_method_names(view) ==
    CASE view \in {"create_resume", "VerifyResumeView"} -> {"POST"}
      [] view = "ResumeDetailView" -> {"PUT"}
      [] view = "delete_resume" -> {"DELETE"}
      [] OTHER -> {"GET"}

\* the views this model follows into their code
ProtectedViews ==
    {"get_tutor_groups", "get_tutor_detail", "get_group_clients", "get_client_detail",
     "ResumeListView", "ResumeDetailView", "VerifyResumeView", "UnverifiedResumesView",
     "create_resume", "delete_resume"}

\* the view function called for the request
call_view(view, req, rows, gs, ss, rs) ==
    CASE view = "get_tutor_groups" -> get_tutor_groups(req.cred, rows, gs, rs)
      [] view = "get_tutor_detail" -> get_tutor_detail(req.cred, rows, rs)
      [] view = "get_group_clients" ->
            get_group_clients(req.cred, rows, gs, ss, req.group_id, rs)
      [] view = "get_client_detail" -> get_client_detail(req.cred, rows, rs)
      [] view = "ResumeListView" ->
            ResumeListView_get(req.cred, rows, req.body.student_crm_id, rs)
      [] view = "ResumeDetailView" ->
            ResumeDetailView_put(req.cred, rows, req.resume_id, req.body, rs)
      [] view = "VerifyResumeView" ->
            VerifyResumeView_post(req.cred, rows, req.resume_id, rs)
      [] view = "UnverifiedResumesView" -> UnverifiedResumesView_get(req.cred, rows, rs)
      [] view = "create_resume" -> create_resume(req.cred, rows, req.body, rs)
      [] view = "delete_resume" -> delete_resume(req.cred, rows, req.resume_id, rs)

\* one request through the resolver and the method check of the view
dispatch(view, req, rows, gs, ss, rs) ==
    IF view \notin ProtectedViews THEN Answer(404, "Not Found", {}, rs)
    ELSE IF req.method \notin http_method_names(view)
    THEN Answer(405, "Method not allowed.", {}, rs)
    ELSE call_view(view, req, rows, gs, ss, rs)

handle_request(req, rows, gs, ss, rs) ==
    dispatch(resolve(req.path), req, rows, gs, ss, rs)

\* ------------------------------------------------------------ results
\* op, the exception the command caught and printed, its counter and the
\* number of the item that raised it; the status and detail of a response,
\* the method of the request and whether a senior tutor sent it
NoOut ==
    [op |-> "none", error |-> "none", synced_count |-> 0, failedAt |-> 0,
     raised |-> "none", status |-> 0, detail |-> "", method |-> "", senior |-> FALSE]

\* ------------------------------------------------------------ history
NoIssue == [tok |-> None, at |-> 0]

\* the token a CRM auth call handed out in this call, else what a clear leaves
Issue(old, t, nAuth, tok, nClear) ==
    IF nAuth > 0 /\ Truthy(tok) THEN [tok |-> tok, at |-> t]
    ELSE IF nClear > 0 THEN NoIssue
    ELSE old

NoCall ==
    [op |-> "none", branch |-> None, c0 |-> EmptyCache, t0 |-> 0, i0 |-> NoIssue,
     ret |-> None, exc |-> "none",
     resp |-> NoResp, nReq |-> 0, nLogin |-> 0, nClear |-> 0, nAuth |-> 0,
     sent |-> <<>>, hdr |-> None, r1 |-> NoResp, a |-> NoAuth, r2 |-> NoResp,
     hit |-> FALSE, read |-> FALSE, isNone |-> TRUE, listedOK |-> FALSE,
     listed |-> <<>>, lookups |-> <<>>, failedAt |-> 0, shape |-> "unused"]

Idle == ag.pc = "idle" /\ gc.pc = "idle"
AgIdle == [pc |-> "idle"]
GcIdle == [pc |-> "idle"]
\* no concurrent call has started, no CRM login has returned a token
NoRace == [run |-> <<>>, returned |-> {}]

\* ------------------------------------------------------------ actions
Init ==
    /\ cache = EmptyCache
    /\ now = 0
    /\ cfg \in [url : BOOLEAN, email : BOOLEAN, key : BOOLEAN]
    /\ issued = NoIssue
    /\ last = NoCall
    /\ ag = AgIdle
    /\ gc = GcIdle
    /\ groups = {}
    /\ students = {}
    /\ tutors = {}
    /\ pks = [group |-> 1, student |-> 1, tutor |-> 1, resume |-> 1]
    /\ out = NoOut
    /\ resumes = {}
    /\ race = NoRace

Tick ==
    /\ now + TickSeconds <= MaxTime
    /\ now' = now + TickSeconds
    /\ UNCHANGED <<cache, cfg, issued, last, ag, gc, store>>

\* the call returned L
LoginDone(a, L) ==
    /\ cache' = L.cache
    /\ issued' = Issue(issued, now, L.nAuth, L.ret, 0)
    /\ last' = [NoCall EXCEPT !.op = "login", !.c0 = cache, !.t0 = now, !.i0 = issued,
                    !.ret = L.ret, !.exc = L.exc, !.nLogin = 1, !.nAuth = L.nAuth,
                    !.a = a, !.hit = L.hit, !.read = TRUE]

\* login_to_alfa_crm() called on its own
LoginCall ==
    /\ Idle
    /\ \E a \in AuthChoices(cache, now, cfg) :
        LoginDone(a, login_to_alfa_crm(cache, now, cfg, a))
    /\ UNCHANGED <<now, cfg, ag, gc, store>>

\* the call returned or raised R
AuthRequestDone(tok, r1, a, r2, R) ==
    /\ cache' = R.cache
    /\ issued' = Issue(issued, now, R.nAuth, R.new_token, R.nClear)
    /\ last' = [NoCall EXCEPT !.op = "request", !.c0 = cache, !.t0 = now, !.i0 = issued,
                    !.exc = R.exc, !.resp = R.resp, !.nReq = R.nReq, !.nLogin = R.nLogin,
                    !.nClear = R.nClear, !.nAuth = R.nAuth, !.sent = R.sent,
                    !.ret = R.new_token, !.hdr = tok, !.r1 = r1, !.a = a, !.r2 = r2,
                    !.hit = R.hit, !.read = R.nLogin > 0]

\* make_authenticated_request(url, headers, data) called on its own
AuthRequestCall ==
    /\ Idle
    /\ \E tok \in Tokens, r1 \in RespOutcomes :
       \E a \in RetryAuthChoices(cfg, r1) :
       \E r2 \in RetryChoices(r1, a) :
        AuthRequestDone(tok, r1, a, r2,
                        make_authenticated_request(cache, now, cfg, tok, r1, a, r2))
    /\ UNCHANGED <<now, cfg, ag, gc, store>>

\* one of get_tutor_data_from_crm, get_client_data_from_crm,
\* get_tutor_groups_from_crm, called from a view
DomainOps == {"tutor", "client", "tutor_groups"}

\* what a domain call that ended with D did to the slot
DomainCache(D) ==
    /\ cache' = D.cache
    /\ issued' = Issue(Issue(issued, now, D.nAuth, D.token, 0),
                       now, D.nAuth, D.tok2, D.nClear)

DomainRecord(op, branch, r1, a, r2, D) ==
    [NoCall EXCEPT !.op = op, !.branch = branch, !.c0 = cache, !.t0 = now,
                   !.i0 = issued, !.ret = D.ret, !.isNone = D.isNone,
                   !.exc = D.exc, !.nReq = D.nReq,
                   !.nLogin = D.nLogin, !.nClear = D.nClear, !.nAuth = D.nAuth,
                   !.r1 = r1, !.a = a, !.r2 = r2, !.read = D.read, !.shape = D.shape]

DomainDone(op, branch, r1, a, r2, D) ==
    /\ DomainCache(D)
    /\ last' = DomainRecord(op, branch, r1, a, r2, D)

DomainCall ==
    /\ Idle
    /\ \E op \in DomainOps, branch \in BranchArgs :
       \E a0 \in FirstAuthChoices(cache, now, cfg, branch) :
       \E r1 \in FirstRespChoices(cache, now, cfg, branch, a0) :
       \E a \in RetryAuthChoices(cfg, r1) :
       \E r2 \in RetryChoices(r1, a) :
       \E body \in BodyChoices(r1, r2,
                    IF op = "tutor" THEN TutorBodies
                    ELSE IF op = "client" THEN ClientBodies ELSE GroupBodies) :
       \E tid \in IF op = "tutor_groups" THEN TutorIds ELSE {"42"} :
        DomainDone(op, branch, r1, a, r2,
            IF op = "tutor"
            THEN get_tutor_data_from_crm(cache, now, cfg, branch, a0, r1, a, r2, body)
            ELSE IF op = "client"
            THEN get_client_data_from_crm(cache, now, cfg, branch, a0, r1, a, r2, body)
            ELSE get_tutor_groups_from_crm(cache, now, cfg, tid, branch, a0, r1, a, r2, body))
    /\ UNCHANGED <<now, cfg, ag, gc, store>>

\* the list comprehension over the listing F: a KeyError when an item lacks
\* "customer_id"
customer_ids_of(F) ==
    IF F.exc = "none" /\ F.stage = "fetched" /\ listing_raises(F.body.items)
    THEN [F EXCEPT !.exc = "KeyError"] ELSE F

\* the listing ended as F: enter the loop, or return None
GcListedRecord(branch, r1, a, r2, F, D) ==
    /\ DomainCache(D)
    /\ IF F.stage = "fetched" /\ F.exc = "none"
       THEN /\ gc' = [pc |-> "loop", branch |-> branch, customer_ids |-> F.body.items,
                      client_names |-> <<>>, lookups |-> <<>>,
                      call |-> [DomainRecord("group_clients", branch, r1, a, r2, D)
                                    EXCEPT !.listedOK = TRUE, !.listed = F.body.items]]
            /\ last' = NoCall
       ELSE /\ gc' = GcIdle
            /\ last' = DomainRecord("group_clients", branch, r1, a, r2, D)

GcListed(branch, r1, a, r2, F) ==
    GcListedRecord(branch, r1, a, r2, F, domain_result(F, FALSE, None))

\* get_group_clients_from_crm up to the end of the listing: guard, login, the
\* cgi/index request and the list of customer ids
GcStart ==
    /\ Idle
    /\ \E branch \in BranchArgs :
       \E a0 \in FirstAuthChoices(cache, now, cfg, branch) :
       \E r1 \in FirstRespChoices(cache, now, cfg, branch, a0) :
       \E a \in RetryAuthChoices(cfg, r1) :
       \E r2 \in RetryChoices(r1, a) :
       \E body \in BodyChoices(r1, r2, ListBodies) :
        GcListed(branch, r1, a, r2,
                 customer_ids_of(crm_fetch(cache, now, cfg, branch, a0, r1, a, r2, body)))
    /\ UNCHANGED <<now, cfg, ag, store>>

\* get_client_data_from_crm ended as D: append a name, or leave through the
\* except clauses of get_group_clients_from_crm
GcLookedUp(D) ==
    /\ DomainCache(D)
    /\ IF D.exc = "none"
       THEN /\ gc' = [gc EXCEPT !.client_names = append_name(@, ~D.isNone, D.ret),
                                !.lookups = Append(@, ~D.isNone)]
            /\ last' = last
       ELSE /\ gc' = GcIdle
            /\ last' = [gc.call EXCEPT !.exc = domain_except(D.exc),
                                       !.lookups = gc.lookups]

\* one iteration of "for customer_id in customer_ids"
GcLookup ==
    /\ gc.pc = "loop"
    /\ Len(gc.lookups) < Len(gc.customer_ids)
    /\ \E a0 \in FirstAuthChoices(cache, now, cfg, gc.branch) :
       \E r1 \in FirstRespChoices(cache, now, cfg, gc.branch, a0) :
       \E a \in RetryAuthChoices(cfg, r1) :
       \E r2 \in RetryChoices(r1, a) :
       \E body \in BodyChoices(r1, r2, ClientBodies) :
        GcLookedUp(get_client_data_from_crm(cache, now, cfg, gc.branch, a0, r1, a, r2, body))
    /\ UNCHANGED <<now, cfg, ag, store>>

\* the loop is over: build and return clients_in_group
GcFinish ==
    /\ gc.pc = "loop"
    /\ Len(gc.lookups) = Len(gc.customer_ids)
    /\ last' = [gc.call EXCEPT !.ret = zip_clients(gc.customer_ids, gc.client_names),
                               !.isNone = FALSE,
                               !.lookups = gc.lookups]
    /\ gc' = GcIdle
    /\ UNCHANGED <<cache, now, cfg, issued, ag, store>>

NextDomain == DomainCall \/ GcStart \/ GcLookup \/ GcFinish

SpecDomain == Init /\ [][NextDomain]_vars

AgRecord(a0) ==
    [NoCall EXCEPT !.op = "all_groups", !.c0 = cache, !.t0 = now, !.i0 = issued, !.a = a0]

\* "token = login_to_alfa_crm(); if not token: return None", L being the login
AgLoggedIn(a0, L) ==
    /\ cache' = L.cache
    /\ issued' = Issue(issued, now, L.nAuth, L.ret, 0)
    /\ IF ~Truthy(L.ret)
       THEN /\ last' = [AgRecord(a0) EXCEPT !.nLogin = 1, !.nAuth = L.nAuth, !.read = TRUE]
            /\ ag' = AgIdle
       ELSE /\ last' = NoCall
            /\ ag' = [pc |-> "page", branch |-> 1, page |-> 0, all_items |-> <<>>,
                      token |-> L.ret, script |-> NoScript, base |-> 0,
                      fetched |-> 0, failed |-> FALSE, failedAt |-> 0,
                      call |-> [AgRecord(a0) EXCEPT !.nLogin = 1, !.nAuth = L.nAuth,
                                                    !.read = TRUE]]

\* get_all_groups up to the first iteration: key check, login, headers
AgStart ==
    /\ Idle
    /\ \E a0 \in IF cfg.key THEN AuthChoices(cache, now, cfg) ELSE {NoAuth} :
        IF ~cfg.key
        THEN /\ last' = AgRecord(a0)
             /\ UNCHANGED <<cache, issued, ag>>
        ELSE AgLoggedIn(a0, login_to_alfa_crm(cache, now, cfg, a0))
    /\ UNCHANGED <<now, cfg, gc, store>>

\* the body of the try block after the request: e is what it raised, items the
\* page, seen the locals with this fetch counted
AgIterate(sc, e, items, seen) ==
    IF e # "none"
    THEN IF page_except(e) = "none"
         THEN /\ ag' = [seen EXCEPT !.pc = "break", !.failed = TRUE,
                          !.failedAt = IF @ = 0 THEN ag.branch ELSE @]
              /\ last' = last
         ELSE /\ ag' = AgIdle
              /\ last' = [ag.call EXCEPT !.exc = page_except(e)]
    ELSE /\ last' = last
         /\ IF Len(items) = 0
            THEN ag' = [seen EXCEPT !.pc = "break"]
            ELSE IF collected_all(ag.all_items \o items, sc.total)
            THEN ag' = [seen EXCEPT !.pc = "break", !.all_items = @ \o items,
                                    !.page = @ + 1]
            ELSE ag' = [seen EXCEPT !.all_items = @ \o items, !.page = @ + 1]

\* make_authenticated_request ended as R for a page holding items
AgFetched(sc, kind, items, R) ==
    /\ cache' = R.cache
    /\ issued' = Issue(issued, now, R.nAuth, R.new_token, R.nClear)
    /\ AgIterate(sc, response_exc(R, [kind |-> kind, items |-> items]), items,
                 [ag EXCEPT !.script = sc, !.fetched = @ + 1])

\* one iteration of "while True" for the current branch: request a page,
\* extend all_items, decide whether to go on
AgPage ==
    /\ ag.pc = "page"
    /\ \E sc \in IF ag.page = 0 THEN BranchData ELSE {ag.script} :
       \E r1 \in RespOutcomes :
       \E a \in RetryAuthChoices(cfg, r1) :
       \E r2 \in RetryChoices(r1, a) :
       \E kind \in IF r1.status = 200 \/ r2.status = 200 THEN PageBodyKinds ELSE {"dict"} :
        AgFetched(sc, kind, page_items(ag.branch, sc, ag.page),
                  make_authenticated_request(cache, now, cfg, ag.token, r1, a, r2))
    /\ UNCHANGED <<now, cfg, gc, store>>

\* after a break: "for branch in branches" moves on, or the function returns
AgNextBranch ==
    /\ ag.pc = "break"
    /\ IF ag.branch < Len(Branches)
       THEN /\ ag' = [ag EXCEPT !.pc = "page", !.branch = @ + 1, !.page = 0,
                                !.script = NoScript, !.base = Len(ag.all_items),
                                !.fetched = 0, !.failed = FALSE]
            /\ last' = last
       ELSE /\ ag' = AgIdle
            /\ last' = [ag.call EXCEPT !.ret = ag.all_items, !.isNone = FALSE,
                                       !.failedAt = ag.failedAt]
    /\ UNCHANGED <<cache, now, cfg, issued, gc, store>>

NextGroups == AgStart \/ AgPage \/ AgNextBranch

SpecGroups == Init /\ [][NextGroups]_vars

\* ---------------------------------------- the page loop against any CRM
InitPaging == Init /\ ConfigOK(cfg)

\* get_all_groups with a token: "for branch in branches: page = 0"
PgStart ==
    /\ ag = AgIdle
    /\ ag' = [pc |-> "page", branch |-> 1, page |-> 0, all_items |-> <<>>,
              script |-> NoPaging, odd |-> FALSE]
    /\ UNCHANGED <<cache, now, cfg, issued, last, gc, store>>

\* the try block for a request that ended as e with the page items
PgIterate(sc, e, items) ==
    IF e # "none"
    THEN /\ page_except(e) = "none"
         /\ ag' = [ag EXCEPT !.pc = "break", !.script = sc]
    ELSE IF Len(items) = 0
    THEN ag' = [ag EXCEPT !.pc = "break", !.script = sc]
    ELSE ag' = [ag EXCEPT !.script = sc,
                          !.all_items = extend_items(@, items),
                          !.page = next_page(@),
                          !.odd = ~@,
                          !.pc = IF collected_all(extend_items(ag.all_items, items),
                                                  sc.total)
                                 THEN "break" ELSE "page"]

\* one iteration of "while True"
PgPage ==
    /\ ag.pc = "page"
    /\ \E sc \in IF ag.page = 0 THEN Pagings ELSE {ag.script} :
       \E e \in PageOutcomes :
        PgIterate(sc, e, crm_page(ag.branch, sc, ag.page))
    /\ UNCHANGED <<cache, now, cfg, issued, last, gc, store>>

\* after a break: the next branch, or "return all_items"
PgNextBranch ==
    /\ ag.pc = "break"
    /\ ag' = IF ag.branch < Len(Branches)
             THEN [ag EXCEPT !.pc = "page", !.branch = @ + 1, !.page = 0,
                             !.script = NoPaging, !.odd = FALSE]
             ELSE [ag EXCEPT !.pc = "returned"]
    /\ UNCHANGED <<cache, now, cfg, issued, last, gc, store>>

NextPaging == PgStart \/ PgPage \/ PgNextBranch

\* the interpreter runs the next statement of the function as long as there
\* is one
SpecPaging ==
    /\ InitPaging
    /\ [][NextPaging]_vars
    /\ WF_vars(PgStart) /\ WF_vars(PgPage) /\ WF_vars(PgNextBranch)

Next == Tick \/ LoginCall \/ AuthRequestCall

Spec == Init /\ [][Next]_vars

\* ------------------------------------------------- commands on the store
\* A command or view is one step.  Its calls of get_all_groups,
\* get_group_clients_from_crm and get_tutor_data_from_crm are represented by
\* the value they return, drawn from GroupsData, ClientsData and TutorData;
\* how such a call goes through the token slot is what Spec, SpecDomain and
\* SpecGroups describe, and none of the tables depends on the slot.
InitStore == Init /\ ConfigOK(cfg)

\* the Group and Student tables as one value
Db ==
    [groups |-> groups, students |-> students,
     group_pk |-> pks.group, student_pk |-> pks.student]

\* the tables after a command that ended as R
StoreAfter(R) ==
    /\ R.db.group_pk <= MaxGroupPk + 1
    /\ R.db.student_pk <= MaxStudentPk + 1
    /\ groups' = R.db.groups
    /\ students' = R.db.students
    /\ pks' = [pks EXCEPT !.group = R.db.group_pk, !.student = R.db.student_pk]

\* "except Exception as e" of Command.handle prints the error: nothing is
\* raised to the caller of the command
GroupSyncDone(items, R) ==
    /\ StoreAfter(R)
    /\ out' = [NoOut EXCEPT !.op = "sync_groups", !.error = R.error, !.raised = R.raised,
                            !.synced_count = R.synced_count, !.failedAt = R.failedAt]

\* manage.py sync_groups
GroupSync ==
    /\ \E items \in GroupsData : GroupSyncDone(items, sync_groups(Db, items))
    /\ UNCHANGED <<cache, now, cfg, issued, last, ag, gc, tutors, resumes, race>>

StudentSyncDone(clients, R) ==
    /\ StoreAfter(R)
    /\ out' = [NoOut EXCEPT !.op = "sync_students", !.error = R.error,
                            !.raised = R.raised, !.synced_count = R.synced_count,
                            !.failedAt = R.failedAt]

\* manage.py sync_students
StudentSync ==
    /\ \E clients \in ClientsData : StudentSyncDone(clients, sync_students(Db, clients))
    /\ UNCHANGED <<cache, now, cfg, issued, last, ag, gc, tutors, resumes, race>>

\* the Students of a deleted Group stay
cascade_none(rows, group_id) == rows

\* on_delete=models.CASCADE: the Students of the Group go with it
cascade(rows, group_id) == {s \in rows : s.group_id # group_id}

\* Group.delete() of a stored Group
DeleteGroup ==
    /\ \E g \in groups :
        /\ groups' = groups \ {g}
        /\ students' = cascade(students, g.id)
        /\ out' = [NoOut EXCEPT !.op = "delete_group"]
    /\ UNCHANGED <<cache, now, cfg, issued, last, ag, gc, tutors, pks, resumes, race>>

NextSync == GroupSync \/ StudentSync \/ DeleteGroup

SpecSync == InitStore /\ [][NextSync]_vars

\* the view answered R
ViewDone(op, R) ==
    /\ tutors' = R.rows
    /\ pks' = [pks EXCEPT !.tutor = IF R.created THEN @ + 1 ELSE @]
    /\ out' = [NoOut EXCEPT !.op = op, !.status = R.status, !.detail = R.detail]

\* the CRM answers worth enumerating for a request
TutorDataChoices(rows, phone_number, tutor_branch_id) ==
    IF field_valid(phone_number) /\ field_valid(tutor_branch_id) THEN TutorData
    ELSE {NoTutor}

\* POST register with phone_number and tutor_branch_id
RegisterTutor ==
    /\ pks.tutor <= MaxTutorPk
    /\ \E phone_number \in Phones \cup {""}, tutor_branch_id \in BranchIds \cup {""} :
       \E tutor_data \in TutorDataChoices(tutors, phone_number, tutor_branch_id) :
        ViewDone("register",
                 register_tutor(tutors, pks.tutor, phone_number, tutor_branch_id, tutor_data))
    /\ UNCHANGED <<cache, now, cfg, issued, last, ag, gc, groups, students, resumes, race>>

\* POST login with phone_number
LoginTutor ==
    /\ \E phone_number \in Phones \cup {""} :
       \E tutor_data \in TutorDataChoices(tutors, phone_number, "1") :
        ViewDone("login",
                 login_tutor(tutors, phone_number, tutor_data))
    /\ UNCHANGED <<cache, now, cfg, issued, last, ag, gc, groups, students, resumes, race>>

NextApi == RegisterTutor \/ LoginTutor

SpecApi == InitStore /\ [][NextApi]_vars

NextStore == GroupSync \/ StudentSync \/ RegisterTutor \/ LoginTutor

SpecStore == InitStore /\ [][NextStore]_vars

\* ------------------------------------------- concurrent calls on the slot
\* Workers run login_to_alfa_crm or make_authenticated_request at the same
\* time; a step is one Redis command or one HTTP call.
Workers == 1..MaxWorkers

\* the locals of a call that has just started
Started(op) ==
    [op |-> op, pc |-> IF op = "login" THEN "get" ELSE "post", r1 |-> NoResp,
     a |-> NoAuth, r2 |-> NoResp, cached_token |-> None, token |-> None,
     hit |-> FALSE, nAuth |-> 0, nReq |-> 0, nClear |-> 0, exc |-> "none"]

\* worker w goes on with the locals x
Goes(w, x) == race' = [race EXCEPT !.run = [v \in DOMAIN @ |-> IF v = w THEN x ELSE @[v]]]

\* a view or command calls the function in worker w
RaceStart ==
    /\ \E w \in Workers \ DOMAIN race.run : \E op \in {"login", "request"} :
        race' = [race EXCEPT !.run =
                    [v \in DOMAIN @ \cup {w} |-> IF v = w THEN Started(op) ELSE @[v]]]
    /\ UNCHANGED <<cache, now, cfg, issued, last, ag, gc, groups, students, tutors, pks,
                   out, resumes>>

\* the retry is repeated while the answer is 401
after_retry_again(r) == IF r.exc = "none" /\ r.status = 401 THEN "clear" ELSE "done"

\* "return response" after the retry, whatever its status
after_retry(r) == "done"

\* where the function goes after its x.nReq-th requests.post ended as r
after_post(x, r) ==
    IF r.exc # "none" THEN [x EXCEPT !.pc = "done", !.exc = reraise(r.exc)]
    ELSE IF x.nReq = 1
    THEN [x EXCEPT !.pc = IF r.status = 401 THEN "clear" ELSE "done"]
    ELSE [x EXCEPT !.pc = after_retry(r)]

\* requests.post(url, headers=headers, ...) of make_authenticated_request
RacePost ==
    /\ \E w \in DOMAIN race.run : \E r \in RespOutcomes :
        /\ race.run[w].pc = "post"
        /\ race.run[w].nReq <= 2
        /\ Goes(w, after_post([race.run[w] EXCEPT
                                 !.nReq = @ + 1,
                                 !.r1 = IF race.run[w].nReq = 0 THEN r ELSE @,
                                 !.r2 = IF race.run[w].nReq = 0 THEN @ ELSE r], r))
    /\ UNCHANGED <<cache, now, cfg, issued, last, ag, gc, groups, students, tutors, pks,
                   out, resumes>>

\* clear_crm_auth_token() after a 401
RaceClear ==
    /\ \E w \in DOMAIN race.run :
        /\ race.run[w].pc = "clear"
        /\ Goes(w, [race.run[w] EXCEPT !.pc = "get", !.nClear = @ + 1])
    /\ cache' = clear_crm_auth_token(cache)
    /\ UNCHANGED <<now, cfg, issued, last, ag, gc, groups, students, tutors, pks, out,
                   resumes>>

\* where a call goes when login_to_alfa_crm has its value
after_login(x) ==
    IF x.op = "login" THEN [x EXCEPT !.pc = "done"]
    ELSE IF refresh_failed(x.token) THEN [x EXCEPT !.pc = "done"]
    ELSE [x EXCEPT !.pc = "post"]

\* "cached_token = redis_client.get(...); if cached_token: return cached_token"
\* and the settings check behind it
race_get(x, cached_token, g) ==
    IF Truthy(cached_token)
    THEN after_login([x EXCEPT !.cached_token = cached_token, !.token = cached_token,
                               !.hit = TRUE])
    ELSE IF ~ConfigOK(g) THEN after_login([x EXCEPT !.token = None, !.hit = FALSE])
    ELSE [x EXCEPT !.pc = "auth", !.token = None, !.hit = FALSE]

RaceGet ==
    /\ \E w \in DOMAIN race.run :
        /\ race.run[w].pc = "get"
        /\ Goes(w, race_get(race.run[w], redis_get(cache, now), cfg))
    /\ UNCHANGED <<cache, now, cfg, issued, last, ag, gc, groups, students, tutors, pks,
                   out, resumes>>

\* the token the try block of login_to_alfa_crm got from the answer a
login_token(a) == login_except(login_try(EmptyCache, 0, a)).ret

\* requests.post(url, ...) of login_to_alfa_crm and the reading of its answer
RaceAuth ==
    /\ \E w \in DOMAIN race.run : \E a \in AuthOutcomes :
        /\ race.run[w].pc = "auth"
        /\ race' = [run |-> [v \in DOMAIN race.run |->
                        IF v # w THEN race.run[v]
                        ELSE IF Truthy(login_token(a))
                        THEN [race.run[w] EXCEPT !.pc = "setex", !.a = a, !.nAuth = @ + 1,
                                                 !.token = login_token(a)]
                        ELSE after_login([race.run[w] EXCEPT !.a = a, !.nAuth = @ + 1,
                                                             !.token = login_token(a)])],
                    returned |-> race.returned \cup
                        (IF a.exc = "none" /\ a.status = 200 /\ a.body = "token"
                         THEN {a.token} ELSE {})]
    /\ UNCHANGED <<cache, now, cfg, issued, last, ag, gc, groups, students, tutors, pks,
                   out, resumes>>

\* redis_client.setex("crm_auth_token", 3600, token)
RaceSetex ==
    /\ \E w \in DOMAIN race.run :
        /\ race.run[w].pc = "setex"
        /\ cache' = store_token(cache, now, race.run[w].token)
        /\ Goes(w, after_login(race.run[w]))
    /\ UNCHANGED <<now, cfg, issued, last, ag, gc, groups, students, tutors, pks, out,
                   resumes>>

\* the function returns (or raises) to its caller
RaceReturn ==
    /\ \E w \in DOMAIN race.run :
        /\ race.run[w].pc = "done"
        /\ race' = [race EXCEPT !.run = [v \in DOMAIN @ \ {w} |-> @[v]]]
    /\ UNCHANGED <<cache, now, cfg, issued, last, ag, gc, groups, students, tutors, pks,
                   out, resumes>>

NextRace ==
    \/ Tick \/ RaceStart \/ RacePost \/ RaceClear \/ RaceGet \/ RaceAuth \/ RaceSetex
    \/ RaceReturn

SpecRace == InitStore /\ [][NextRace]_vars


\* ------------------------------------------------- requests to the views
\* the Resume table as one value
Rs == [rows |-> resumes, pk |-> pks.resume]

\* the JSON body of a request
Bodies ==
    [content : Contents \cup {"", None}, is_verified : BOOLEAN,
     student_crm_id : StudentCrmIds]
EmptyBody == [content |-> None, is_verified |-> FALSE, student_crm_id |-> "7"]

Req(method, path, cred, resume_id, body) ==
    [method |-> method, path |-> path, cred |-> cred, resume_id |-> resume_id,
     body |-> body, group_id |-> 1]

GetPaths ==
    {"tutors/groups/", "tutors/detail/", "groups/clients/", "clients/detail/",
     "resumes/client/", "resumes/unverified/", "resumes/latest-verified/"}

\* the requests a client sends: the reads, PUT, verify, create and DELETE
Requests ==
    {Req("GET", p, c, 1, EmptyBody) : p \in GetPaths, c \in Creds}
    \cup {Req("PUT", "resumes/<int>/", c, i, b) :
            c \in Creds, i \in 1..MaxResumePk, b \in Bodies}
    \cup {Req("POST", "resumes/<int>/verify/", c, i, EmptyBody) :
            c \in Creds, i \in 1..MaxResumePk}
    \cup {Req("POST", "resumes/", c, 1, b) : c \in Creds, b \in Bodies}
    \cup {Req("DELETE", "resumes/<int>/", c, i, EmptyBody) :
            c \in Creds, i \in 1..MaxResumePk}

\* the request was answered with A
ApiDone(req, A) ==
    /\ A.rs.pk <= MaxResumePk + 1
    /\ resumes' = A.rs.rows
    /\ pks' = [pks EXCEPT !.resume = A.rs.pk]
    /\ out' = [NoOut EXCEPT !.op = resolve(req.path), !.method = req.method,
                            !.status = A.status, !.detail = A.detail,
                            !.senior = \E t \in tutors :
                                /\ req.cred.header = "valid"
                                /\ t.phone_number = req.cred.sub /\ t.is_senior]

\* one request to a protected endpoint
ApiRequest ==
    /\ \E req \in Requests :
        ApiDone(req, handle_request(req, tutors, groups, students, Rs))
    /\ UNCHANGED <<cache, now, cfg, issued, last, ag, gc, groups, students, tutors, race>>

\* TutorProfileAdmin: a staff user ticks is_senior on the change form
AdminSetSenior ==
    /\ \E t \in tutors :
        /\ ~t.is_senior
        /\ tutors' = (tutors \ {t}) \cup {[t EXCEPT !.is_senior = TRUE]}
    /\ out' = [NoOut EXCEPT !.op = "admin"]
    /\ UNCHANGED <<cache, now, cfg, issued, last, ag, gc, groups, students, pks,
                   resumes, race>>

\* GET tutors/groups/
TutorGroupsRequest ==
    /\ \E c \in Creds :
        ApiDone(Req("GET", "tutors/groups/", c, 1, EmptyBody),
                handle_request(Req("GET", "tutors/groups/", c, 1, EmptyBody),
                               tutors, groups, students, Rs))
    /\ UNCHANGED <<cache, now, cfg, issued, last, ag, gc, groups, students, tutors, race>>

NextTutorGroups == GroupSync \/ RegisterTutor \/ AdminSetSenior \/ TutorGroupsRequest

SpecTutorGroups == InitStore /\ [][NextTutorGroups]_vars

NextResumes == RegisterTutor \/ AdminSetSenior \/ ApiRequest

SpecResumes == InitStore /\ [][NextResumes]_vars

\* ================================================================ claims
IsRequest == last.op = "request"
IsLogin == last.op = "login"
First401 == IsRequest /\ last.r1.exc = "none" /\ last.r1.status = 401
\* the CRM auth endpoint answered 200 with a usable token
AuthGaveToken(a) == a.exc = "none" /\ a.status = 200 /\ a.body = "token" /\ Truthy(a.token)
SlotEmptyBefore == ~Truthy(redis_get(last.c0, last.t0))

\* C1: a first answer of 401 followed by a re-login that yields a token causes
\* exactly one retry (two requests, one clear, one login), the retry carries
\* the token the CRM has just issued, and what the retry produced is what the
\* caller gets, whatever its status (also a second 401).
C1_RetryOnce ==
    (First401 /\ ConfigOK(cfg) /\ AuthGaveToken(last.a)) =>
        /\ last.nReq = 2 /\ last.nLogin = 1 /\ last.nClear = 1 /\ last.nAuth = 1
        /\ last.sent = <<last.hdr, last.a.token>>
        /\ (last.r2.exc = "none" =>
                /\ last.exc = "none"
                /\ last.resp = [last.r2 EXCEPT !.seq = 2])

C1_Witness ==
    /\ First401 /\ ConfigOK(cfg) /\ AuthGaveToken(last.a)
    /\ last.hdr # last.a.token
    /\ last.resp.status = 401 /\ last.resp.seq = 2

\* C2: a first answer of 401 followed by a re-login that returns no token
\* returns the first response itself, sends no second request and leaves the
\* token slot empty.
C2_RefreshFailed ==
    (First401 /\ ~Truthy(last.ret)) =>
        /\ last.exc = "none"
        /\ last.resp = [last.r1 EXCEPT !.seq = 1]
        /\ last.nReq = 1 /\ last.sent = <<last.hdr>>
        /\ redis_get(cache, last.t0) = None
        /\ cache = EmptyCache

C2_Witness ==
    /\ First401 /\ ~Truthy(last.ret)
    /\ Truthy(redis_get(last.c0, last.t0))
    /\ last.nAuth = 1 /\ last.resp.status = 401 /\ last.resp.seq = 1

\* C3: a timeout or connection error of the first request or of the retry is
\* raised to the caller and no response is returned; on the first request it
\* causes no clear of the slot, no login and no retry.
C3_NetworkErrorsPropagate ==
    IsRequest =>
        /\ (last.r1.exc \in {"Timeout", "ConnectionError"} =>
                /\ last.exc = last.r1.exc /\ last.resp = NoResp
                /\ last.nReq = 1 /\ last.nClear = 0 /\ last.nLogin = 0 /\ last.nAuth = 0
                /\ cache = last.c0)
        /\ (last.nReq = 2 /\ last.r2.exc \in {"Timeout", "ConnectionError"} =>
                /\ last.exc = last.r2.exc /\ last.resp = NoResp)

C3_Witness ==
    /\ IsRequest /\ last.nReq = 2 /\ last.r2.exc = "Timeout" /\ last.exc = "Timeout"

\* C4: a login that finds a token in the slot returns it without a call to the
\* CRM and leaves the slot as it was; a login that finds the slot empty and
\* gets 200 with a token (a non-empty one: an empty or null token field is the
\* "no token" case of C5) stores that token for 3600 s and returns it; a login
\* made while a token issued less than 3600 s ago has not been cleared returns
\* that token without a call to the CRM.
C4_LoginCachesToken ==
    IsLogin =>
        /\ (~SlotEmptyBefore =>
                /\ last.ret = last.c0.tok /\ last.nAuth = 0 /\ cache = last.c0)
        /\ (SlotEmptyBefore /\ ConfigOK(cfg) /\ AuthGaveToken(last.a) =>
                /\ last.ret = last.a.token /\ last.nAuth = 1
                /\ cache = [tok |-> last.a.token, exp |-> last.t0 + 3600])
        /\ (Truthy(last.i0.tok) /\ last.t0 < last.i0.at + 3600 =>
                /\ last.ret = last.i0.tok /\ last.nAuth = 0)

C4_Witness ==
    /\ IsLogin /\ Truthy(last.i0.tok) /\ last.t0 > last.i0.at
    /\ last.ret = last.i0.tok /\ last.nAuth = 0

\* C5: with an empty slot, every failure of the auth call (status other than
\* 200, timeout, connection error, malformed body, 200 without a token,
\* missing CRM configuration) makes login return no token, raise nothing and
\* leave the slot empty.
C5_LoginFailureIsNoToken ==
    (IsLogin /\ SlotEmptyBefore /\ ~(ConfigOK(cfg) /\ AuthGaveToken(last.a))) =>
        /\ ~Truthy(last.ret)
        /\ last.exc = "none"
        /\ cache = last.c0
        /\ redis_get(cache, last.t0) = None

C5_Witness ==
    /\ IsLogin /\ SlotEmptyBefore /\ last.nAuth = 1
    /\ last.a.body = "malformed" /\ last.ret = None

\* C6: a token stored with TTL 3600 is what every read of the slot returns
\* until 3600 s have passed since it was stored (earlier reads do not move the
\* expiry), no read returns it afterwards, and after a clear the next read
\* finds the slot empty whatever was left of the TTL.
C6_TokenTTL ==
    /\ (IsLogin /\ Truthy(last.i0.tok) /\ last.t0 < last.i0.at + TokenTTL =>
            last.hit /\ last.ret = last.i0.tok)
    /\ (IsLogin /\ Truthy(last.i0.tok) /\ last.t0 >= last.i0.at + TokenTTL => ~last.hit)
    /\ (IsLogin /\ last.i0 = NoIssue => ~last.hit)
    /\ (IsRequest /\ last.nClear = 1 => ~last.hit)

C6_Witness ==
    /\ IsLogin /\ Truthy(last.i0.tok) /\ last.t0 = last.i0.at + TokenTTL
    /\ ~last.hit /\ last.c0.tok = last.i0.tok

\* C9: when the listing of customer ids succeeds, get_group_clients_from_crm
\* returns a list with one entry per listed id, in the order listed, and an
\* id whose lookup returned nothing has the "not found" placeholder as name;
\* a failed lookup neither aborts nor shortens the batch.
C9_GroupClientsOrder ==
    /\ (gc.pc = "loop" => Len(gc.client_names) = Len(gc.lookups))
    /\ (last.op = "group_clients" /\ last.listedOK =>
            /\ ~last.isNone /\ last.exc = "none"
            /\ Len(last.ret) = Len(last.listed)
            /\ \A i \in 1..Len(last.listed) :
                /\ last.ret[i].customer_id = last.listed[i]
                /\ (~last.lookups[i] => last.ret[i].client_name = NotFoundName))

C9_Witness ==
    /\ last.op = "group_clients" /\ last.listedOK
    /\ last.listed = <<8, 7>> /\ last.lookups = <<FALSE, TRUE>>
    /\ last.ret[1] = [customer_id |-> 8, client_name |-> NotFoundName]
    /\ last.ret[2] = [customer_id |-> 7, client_name |-> "Ann"]

\* C10: get_tutor_data_from_crm, get_client_data_from_crm,
\* get_tutor_groups_from_crm and get_group_clients_from_crm, called without a
\* branch or with no CRM API key configured, return None, send nothing to the
\* CRM and neither read nor write the token slot.
C10_GuardShortCircuits ==
    (last.op \in DomainOps \cup {"group_clients"}
        /\ (~Truthy(last.branch) \/ ~cfg.key)) =>
        /\ last.isNone /\ last.exc = "none"
        /\ last.nReq = 0 /\ last.nAuth = 0 /\ last.nLogin = 0 /\ last.nClear = 0
        /\ ~last.read
        /\ cache = last.c0

C10_Witness ==
    /\ last.op = "group_clients" /\ last.branch = None /\ cfg.key
    /\ Truthy(cache.tok) /\ last.isNone /\ ~last.read

\* the CRM made the request of the completed domain call fail: a network
\* error or an error status on the first request, a 401 whose token refresh
\* failed or whose retry failed, or a 200 whose payload is not a JSON object
CrmFailed ==
    \/ last.r1.exc # "none"
    \/ last.r1.status = 500
    \/ /\ last.r1.exc = "none" /\ last.r1.status = 401
       /\ (~AuthGaveToken(last.a) \/ last.r2.exc # "none" \/ last.r2.status # 200)
    \/ last.shape \in {"malformed", "notdict"}

\* C11: no domain call surfaces an exception: whatever the CRM does (error
\* status, timeout or connection error on the first request or on the retry
\* after a 401, failed token refresh, payload of unexpected shape, no token at
\* all) the call returns None.
C11_DomainCallsNeverRaise ==
    last.op \in DomainOps \cup {"group_clients"} =>
        /\ last.exc = "none"
        /\ (last.nReq > 0 /\ CrmFailed => last.isNone)
        /\ (last.read /\ last.nReq = 0 => last.isNone)

C11_Witness ==
    /\ last.op = "tutor" /\ last.nReq = 2
    /\ last.r1.status = 401 /\ AuthGaveToken(last.a) /\ last.r2.exc = "Timeout"
    /\ last.isNone /\ last.exc = "none"

\* the second of two runs left everything as the first run R1 left it: rows,
\* and the primary keys handed out
RerunSame(R1, R2) == R2.db = R1.db /\ R2.error = R1.error

GroupsRerun(R1, items) == RerunSame(R1, sync_groups(R1.db, items))
StudentsRerun(R1, clients) == RerunSame(R1, sync_students(R1.db, clients))

\* C12: both sync commands are idempotent: from any store, a second run of
\* sync_groups (sync_students) against the CRM data of the first creates no
\* row and leaves the tables exactly as the first run left them.
C12_SyncIdempotent ==
    /\ \A items \in GroupsData : GroupsRerun(sync_groups(Db, items), items)
    /\ \A clients \in ClientsData : StudentsRerun(sync_students(Db, clients), clients)

\* a run has filled both tables and running again with the same data
\* (two groups, two students) leaves the tables as they are
C12_Witness ==
    /\ out.op = "sync_students" /\ out.synced_count = 2
    /\ Cardinality(groups) = 2 /\ Cardinality(students) = 2
    /\ sync_groups(Db, <<G1, G2>>).db = Db
    /\ \E clients \in ClientsData :
        /\ clients[1] # <<>> /\ clients[2] # <<>>
        /\ sync_students(Db, clients).db = Db

MirroredFields == {"branch_ids", "teacher_ids", "name"}

\* the mirrored fields in which the stored Group g and the CRM record d differ
Differing(g, d) == {f \in MirroredFields : g[f] # d[f]}

\* the Group with primary key pk after the run R
GroupAfter(R, pk) == CHOOSE h \in R.db.groups : h.id = pk

\* an error-free re-sync R of the CRM record d of the stored Group g
OverwrittenBy(g, d, R) ==
    R.error = "none" =>
        /\ \E h \in R.db.groups : h.id = g.id
        /\ \A f \in MirroredFields : GroupAfter(R, g.id)[f] = d[f]
        /\ (Cardinality(Differing(g, d)) = 1 =>
                \A f \in MirroredFields \ Differing(g, d) : GroupAfter(R, g.id)[f] = g[f])
        /\ \A h \in groups : h.id # g.id => h \in R.db.groups
        /\ R.db.students = students

\* C13: a re-sync of a CRM group that is stored locally overwrites every
\* mirrored field of that Group with the value the CRM sent; when one field
\* differed, only that field changes; the other Groups and all Students stay
\* as they were.
C13_GroupOverwrite ==
    \A d \in CrmGroups : \A g \in groups :
        g.crm_group_id = d.id => OverwrittenBy(g, d, sync_groups(Db, <<d>>))

\* the student loop with the pairs of clients, applied to the tables db
WorkOf(db, clients) == client_work(groups_all(db.groups), clients)

\* an entry of a CRM answer that carries a customer id and a name
HasIdAndName(e) == e.customer_id # NoId /\ e.client_name \notin {None, ""}

\* the entries the CRM returned for a group
Listed(clients, crm_group_id) ==
    {clients[crm_group_id][k] : k \in 1..Len(clients[crm_group_id])}
ListedIn(clients, crm_group_id, customer_id) ==
    \E e \in Listed(clients, crm_group_id) :
        e.customer_id = customer_id /\ HasIdAndName(e)

\* after the run R the customer is one row, and that row points to group_id
OneRowAt(R, customer_id, group_id) ==
    /\ Cardinality({t \in R.db.students : t.student_crm_id = customer_id}) = 1
    /\ \A t \in R.db.students : t.student_crm_id = customer_id => t.group_id = group_id

\* the Student s of Group a is listed by the CRM under Group b and not under a
Reassigned(clients, s, a, b) ==
    /\ s.group_id = a.id /\ b.id # a.id
    /\ ListedIn(clients, b.crm_group_id, s.student_crm_id)
    /\ ~ListedIn(clients, a.crm_group_id, s.student_crm_id)
    /\ \A c \in groups : c.id \notin {a.id, b.id} =>
            ~ListedIn(clients, c.crm_group_id, s.student_crm_id)

MovedBy(clients, R) ==
    \A s \in students : \A a \in groups : \A b \in groups :
        Reassigned(clients, s, a, b) /\ R.error = "none" =>
            OneRowAt(R, s.student_crm_id, b.id)

\* C14: a Student stored under Group A that the CRM lists under Group B and
\* no longer under A is, after an error-free run of sync_students, one row
\* whose group is B; no second row with its customer id exists.
C14_StudentReassigned ==
    \A clients \in ClientsData : MovedBy(clients, sync_students(Db, clients))

\* student 7 is stored under one group and a run with the CRM listing it
\* under the other group only moves it there
C14_Witness ==
    /\ out.op = "sync_students" /\ Cardinality(groups) = 2
    /\ \E s \in students : \E a \in groups : \E b \in groups :
       \E clients \in ClientsData :
        /\ s.student_crm_id = 7
        /\ Reassigned(clients, s, a, b)
        /\ sync_students(Db, clients).error = "none"
        /\ OneRowAt(sync_students(Db, clients), 7, b.id)
        /\ Cardinality(sync_students(Db, clients).db.students) = Cardinality(students)

\* the names the CRM resolved in the run for a customer
NamesOf(clients, customer_id) ==
    {e.client_name : e \in {e \in UNION {Listed(clients, g.crm_group_id) : g \in groups} :
                                e.customer_id = customer_id /\ HasIdAndName(e)}}

StoredAs(R, e) ==
    \E s \in R.db.students :
        s.student_crm_id = e.customer_id /\ s.student_name = e.client_name

MirrorsNames(clients, R) ==
    R.error = "none" =>
        \A g \in groups : \A e \in Listed(clients, g.crm_group_id) :
            HasIdAndName(e) /\ NamesOf(clients, e.customer_id) = {e.client_name} =>
                StoredAs(R, e)

\* C15: after an error-free run of sync_students every client the CRM
\* returned for a local Group is a Student with that customer id and with the
\* name the CRM resolved in the run, also when the Student existed before.
C15_StudentsMirrorCrm ==
    \A clients \in ClientsData : MirrorsNames(clients, sync_students(Db, clients))

\* the answers without the entries that lack an id or a name
RECURSIVE WithIdAndName(_)
WithIdAndName(q) ==
    IF q = <<>> THEN <<>>
    ELSE (IF HasIdAndName(Head(q)) THEN <<Head(q)>> ELSE <<>>) \o WithIdAndName(Tail(q))

SameOutcome(R1, R2) ==
    R1.db = R2.db /\ R1.synced_count = R2.synced_count /\ R1.error = R2.error

\* C16: sync_students skips an entry without customer id or without name:
\* the run creates and changes what it would without that entry and counts
\* what it would count without it, so the entry creates and changes nothing,
\* is not counted, and the entries after it are processed.
C16_SkipsIncomplete ==
    \A clients \in ClientsData :
        SameOutcome(sync_students(Db, clients),
                    sync_students(Db, [i \in DOMAIN clients |-> WithIdAndName(clients[i])]))

\* a run over an entry without id followed by customer 8 has created
\* Student 8 and counted one
C16_Witness ==
    /\ out.op = "sync_students" /\ out.synced_count = 1 /\ out.error = "none"
    /\ Cardinality(groups) = 1
    /\ \A s \in students : s.student_crm_id = 8 /\ s.student_name = "Bob"
    /\ Cardinality(students) = 1
    /\ \E clients \in ClientsData : \E g \in groups :
        /\ clients[g.crm_group_id] = <<ClientEntry(NoId, "Ann"), ClientEntry(8, "Bob")>>
        /\ sync_students(Db, clients).synced_count = 1
        /\ sync_students(Db, clients).db = Db

\* a run R that an exception ended at item failedAt did what the run over the
\* items before it (P) does, and raises nothing
AbortedAt(R, P) ==
    /\ R.raised = "none"
    /\ (R.error # "none") = (R.failedAt > 0)
    /\ (R.failedAt > 0 =>
            P.error = "none" /\ R.db = P.db /\ R.synced_count = P.synced_count)

GroupsAborted(items, R) ==
    AbortedAt(R, sync_groups(Db, SubSeq(items, 1, R.failedAt - 1)))

StudentsAborted(work, R) ==
    AbortedAt(R, students_loop(Db, SubSeq(work, 1, R.failedAt - 1), 1, 0))

\* C17: in sync_groups and in sync_students an exception at item k ends the
\* run: the items after k are not processed, what was written for the items
\* before k stays, and the command returns without raising.
C17_AbortKeepsPrefix ==
    /\ \A items \in GroupsData : GroupsAborted(items, sync_groups(Db, items))
    /\ \A clients \in ClientsData :
        StudentsAborted(WorkOf(Db, clients), sync_students(Db, clients))
    /\ out.raised = "none"

\* customer 8 was written, the entry after it raised, customer 7 after that
\* was not reached
C17_Witness ==
    /\ out.op = "sync_students" /\ out.failedAt = 2 /\ out.error = "ValueError"
    /\ out.raised = "none" /\ out.synced_count = 1
    /\ \E s \in students : s.student_crm_id = 8
    /\ \A s \in students : s.student_crm_id # 7

\* C18: the group of every Student is null or the primary key of a stored
\* Group, in every state that sync_groups, sync_students and deletions of
\* Groups reach; the deletion of a Group leaves no Student that points to it.
C18_StudentGroupExists ==
    /\ \A s \in students : s.group_id = NullId \/ \E g \in groups : g.id = s.group_id
    /\ \A g \in groups : \A s \in cascade(students, g.id) : s.group_id # g.id

\* a Group was deleted and the Students written under it went with it, the
\* other Group is still there
C18_Witness ==
    /\ out.op = "delete_group"
    /\ pks.student > 1 /\ students = {}
    /\ Cardinality(groups) = 1

Distinct(rows, f) == \A r1 \in rows : \A r2 \in rows : r1[f] = r2[f] => r1 = r2

\* C19: no two TutorProfiles have the same phone number or the same non-null
\* tutor_crm_id, no two Groups the same crm_group_id, no two Students the same
\* student_crm_id, in every state that registrations, logins, sync_groups and
\* sync_students reach.
C19_UniqueKeys ==
    /\ Distinct(tutors, "phone_number")
    /\ Distinct({t \in tutors : t.tutor_crm_id # None}, "tutor_crm_id")
    /\ Distinct(groups, "crm_group_id")
    /\ Distinct(students, "student_crm_id")
    /\ Distinct(tutors, "id") /\ Distinct(groups, "id") /\ Distinct(students, "id")

\* all tables hold two rows and the last request was refused by a unique
\* constraint
C19_Witness ==
    /\ Cardinality(tutors) = 2 /\ Cardinality(groups) = 2 /\ Cardinality(students) = 2
    /\ out.status = 500 /\ out.detail = "IntegrityError"

NumericIds == {"42", "43"}

\* the registration R stored one profile for the phone, with the id of the
\* CRM, the branch of the request and is_senior false, and touched no other
Registered(R, phone_number, tutor_branch_id, id) ==
    /\ R.status = 201
    /\ \E t \in R.rows :
        /\ t.phone_number = phone_number /\ t.tutor_crm_id = id
        /\ t.branch = tutor_branch_id /\ ~t.is_senior
        /\ t \notin tutors
        /\ R.rows = tutors \cup {t}

\* the registration R was refused because the phone is stored
RefusedAsTaken(R) ==
    /\ R.status = 400 /\ R.detail = "Phone number already registered"
    /\ R.crm_calls = 0
    /\ R.rows = tutors

RegisterOutcome(phone_number, tutor_branch_id, tutor_data, idFree, R) ==
    /\ (tutors_by_phone(tutors, phone_number) = {}
            /\ tutor_data.found /\ tutor_data.id \in NumericIds /\ idFree =>
                Registered(R, phone_number, tutor_branch_id, tutor_data.id))
    /\ (tutors_by_phone(tutors, phone_number) # {} => RefusedAsTaken(R))

\* C20 as stated: a registration of a phone that is not stored, for which the
\* CRM returns a teacher with numeric id N, stores exactly one TutorProfile
\* with tutor_crm_id N, the requested branch and is_senior false; a
\* registration of a stored phone gets 400 "Phone number already registered",
\* calls no CRM and writes nothing.
C20_RegisterAsStated ==
    \A phone_number \in Phones, tutor_branch_id \in BranchIds, tutor_data \in TutorData :
        RegisterOutcome(phone_number, tutor_branch_id, tutor_data, TRUE,
            register_tutor(tutors, pks.tutor, phone_number, tutor_branch_id, tutor_data))

\* C20 amended: the same, for an id N that no stored TutorProfile holds (the
\* unique constraint on tutor_crm_id refuses the insert otherwise).
C20_RegisterUnlessIdHeld ==
    \A phone_number \in Phones, tutor_branch_id \in BranchIds, tutor_data \in TutorData :
        RegisterOutcome(phone_number, tutor_branch_id, tutor_data,
            \A t \in tutors : t.tutor_crm_id # tutor_data.id,
            register_tutor(tutors, pks.tutor, phone_number, tutor_branch_id, tutor_data))

\* the phone was registered with CRM id 42 and a second registration of it
\* has just been refused
C20_Witness ==
    /\ out.op = "register" /\ out.status = 400
    /\ out.detail = "Phone number already registered"
    /\ tutors = {[id |-> 1, phone_number |-> "+375447123218", tutor_crm_id |-> "42",
                  branch |-> "1", is_senior |-> FALSE]}

IsPrefix(p, q) == Len(p) <= Len(q) /\ SubSeq(q, 1, Len(p)) = p

\* C7: for every branch, whatever the earlier branches contributed, the pages
\* of the branch are fetched until one is empty or the items accumulated for
\* the branch reach the total reported for the branch, so every item of the
\* branch is accumulated: with a reported total the fetches are the non-empty
\* pages (pages of k, k, 0 items with total 2k: two fetches, 2k items; a first
\* page that meets the total: one fetch), without one they end on the empty page.
C7_PerBranchPagination ==
    (ag.pc = "break" /\ ~ag.failed) =>
        LET got == Len(ag.all_items) - ag.base
            sc == ag.script
        IN  /\ got = Sum(sc.sizes)
            /\ (sc.total > 0 => ag.fetched = Len(sc.sizes))
            /\ (sc.total = 0 => ag.fetched = Len(sc.sizes) + 1)

\* C8: an HTTP error, a request exception or a malformed payload on a page of
\* a branch ends the paging of that branch only: the items accumulated so far
\* stay, the next branch is paged from page 0, and after the last branch the
\* accumulated list is returned; nothing is raised.
C8_BranchErrorIsolated ==
    [][ /\ (ag.pc = "page" =>
                /\ ag'.pc \in {"page", "break"}
                /\ ag'.branch = ag.branch
                /\ IsPrefix(ag.all_items, ag'.all_items)
                /\ (ag'.failed => ag'.pc = "break" /\ ag'.all_items = ag.all_items))
        /\ (ag.pc = "break" /\ ag.branch < 4 =>
                /\ ag'.pc = "page" /\ ag'.branch = ag.branch + 1 /\ ag'.page = 0
                /\ ag'.all_items = ag.all_items)
        /\ (ag.pc = "break" /\ ag.branch = 4 =>
                /\ last'.op = "all_groups" /\ ~last'.isNone /\ last'.exc = "none"
                /\ last'.ret = ag.all_items)
      ]_vars

C8_Witness ==
    /\ last.op = "all_groups" /\ ~last.isNone /\ last.failedAt = 2
    /\ \E i, j, k \in 1..Len(last.ret) :
        last.ret[i] = <<1, 1>> /\ last.ret[j] = <<2, 1>> /\ last.ret[k] = <<3, 1>>

\* ---------------------------------------------------------------- C21
\* "".join(filter(str.isdigit, phone_number)): both strings of Phones hold
\* the digits 375447123218
digits(p) == IF p \in Phones THEN "375447123218" ELSE p

\* C21: a stored phone_number holds only digits, and a phone string that differs
\* from a stored one only in non-digit characters names the same TutorProfile:
\* login with it gives a token for that profile, and registration with it
\* adds no second profile.
C21_PhonesNormalised ==
    \A t \in tutors :
        /\ t.phone_number = digits(t.phone_number)
        /\ \A p \in Phones : digits(p) = digits(t.phone_number) =>
            /\ login_tutor(tutors, p, NoTutor).status = 200
            /\ \A d \in TutorData :
                 register_tutor(tutors, pks.tutor, p, "1", d).rows = tutors

\* ---------------------------------------------------------------- C22
\* the profiles other than t that hold the CRM id
HeldByOther(rows, t, id) == {u \in rows : u.id # t.id /\ u.tutor_crm_id = id}

\* the answer is 400-class with an error body and the table is as before
RefusedAs400(R, rows) ==
    /\ R.status \in 400..499
    /\ R.detail # ""
    /\ R.sub = None
    /\ R.rows = rows

\* C22: a register request for a new phone whose CRM teacher id is already held
\* by a TutorProfile, and a login whose CRM refresh brings an id held by
\* another TutorProfile, are answered with a 400-class error response and
\* leave the TutorProfile table unchanged.
C22_UniquenessIs400 ==
    \A p \in Phones : \A d \in TutorData :
        /\ (/\ tutors_by_phone(tutors, p) = {}
            /\ d.found /\ d.id \in NumericIds
            /\ \E u \in tutors : u.tutor_crm_id = d.id)
           => RefusedAs400(register_tutor(tutors, pks.tutor, p, "1", d), tutors)
        /\ \A t \in tutors_by_phone(tutors, p) :
             (d.found /\ t.branch # None /\ HeldByOther(tutors, t, d.id) # {})
             => RefusedAs400(login_tutor(tutors, p, d), tutors)

\* ---------------------------------------------------------------- C28
\* the fields of a profile that login never touches
LoginKeeps(t) == [id |-> t.id, is_senior |-> t.is_senior,
                  phone_number |-> t.phone_number, branch |-> t.branch]

\* what C28 states of the answer R to a login with phone p
LoginOutcome(p, R) ==
    IF tutors_by_phone(tutors, p) = {}
    THEN /\ R.status = 401 /\ R.detail = "Incorrect phone number"
         /\ R.sub = None /\ R.crm_calls = 0 /\ R.rows = tutors
    ELSE /\ R.status = 200 /\ R.sub = p
         /\ {LoginKeeps(t) : t \in R.rows} = {LoginKeeps(t) : t \in tutors}

\* C28: login with a phone that has no TutorProfile gives 401 'Incorrect phone
\* number', no token, no CRM call and an unchanged table; login with a
\* registered phone gives a token whose subject is that phone, whatever the
\* CRM lookup returned, and leaves is_senior, phone_number and branch of
\* every profile as they were.
C28_LoginAsStated ==
    \A p \in Phones : \A d \in TutorData : LoginOutcome(p, login_tutor(tutors, p, d))

\* ---------------------------------------------------------------- C23
\* the bearer token is valid and names the phone of a stored TutorProfile
Authenticated(cred) ==
    cred.header = "valid" /\ \E t \in tutors : t.phone_number = cred.sub

\* the caller is a stored senior tutor
SeniorCaller(cred) ==
    cred.header = "valid" /\ \E t \in tutors : t.phone_number = cred.sub /\ t.is_senior

\* verify and delete are the requests that need the senior role
NeedsSenior(req) ==
    \/ req.method = "POST" /\ req.path = "resumes/<int>/verify/"
    \/ req.method = "DELETE"

\* the answer is a refusal with that status, shows no stored row and leaves
\* the Resume table as it is
RefusedWith(A, status, details) ==
    /\ A.status = status
    /\ A.detail \in details
    /\ A.data = {}
    /\ A.rs = Rs

\* C23: a request to a protected endpoint whose bearer token is missing,
\* malformed, expired, wrongly signed or names a phone with no TutorProfile is
\* answered 401 with the fixed detail; an authenticated request without the
\* senior role to a senior-only endpoint is answered 403; either answer shows
\* no stored data and leaves the store unchanged.
C23_ProtectedRefuses ==
    \A req \in Requests :
        /\ ~Authenticated(req.cred) =>
            RefusedWith(handle_request(req, tutors, groups, students, Rs), 401,
                        {"Authentication required"})
        /\ (Authenticated(req.cred) /\ ~SeniorCaller(req.cred) /\ NeedsSenior(req)) =>
            RefusedWith(handle_request(req, tutors, groups, students, Rs), 403,
                        {"Senior tutor access required"})

\* ---------------------------------------------------------------- C24
\* the resumes that A verifies or removes
Touched(A) ==
    {r \in resumes : \A q \in A.rs.rows : q.id = r.id => q.is_verified # r.is_verified}

\* C24: a verify or delete request from a tutor with is_senior = false is
\* refused with 403 'Senior tutor access required' and leaves every resume as
\* it is; a request that sets is_verified or removes a resume comes from a
\* tutor with is_senior = true.
C24_SeniorGate ==
    \A req \in Requests :
        /\ (Authenticated(req.cred) /\ ~SeniorCaller(req.cred) /\ NeedsSenior(req)) =>
            RefusedWith(handle_request(req, tutors, groups, students, Rs), 403,
                        {"Senior tutor access required"})
        /\ Touched(handle_request(req, tutors, groups, students, Rs)) # {} =>
            SeniorCaller(req.cred)

\* ---------------------------------------------------------------- C27
\* the resume ids some listing shows to the caller over the table rs
ListedResumes(cred, rs) ==
    ResumeListView_get(cred, tutors, "7", rs).data
    \cup UnverifiedResumesView_get(cred, tutors, rs).data
    \cup get_latest_verified_resume(cred, tutors, "7", rs).data

\* A is the success of a delete of resume i
Deleted(A, cred, i) ==
    /\ A.status = 200
    /\ A.detail = "Resume deleted successfully"
    /\ \A r \in A.rs.rows : r.id # i
    /\ i \notin ListedResumes(cred, A.rs)

\* C27: a DELETE request for the id of a stored resume, sent by an
\* authenticated senior tutor through the URL routes, removes the resume and
\* returns the success message, and no listing shows the resume afterwards.
C27_DeleteReachable ==
    \A req \in Requests :
        (/\ req.method = "DELETE"
         /\ SeniorCaller(req.cred)
         /\ \E r \in resumes : r.id = req.resume_id)
        => Deleted(handle_request(req, tutors, groups, students, Rs), req.cred,
                   req.resume_id)

\* ---------------------------------------------------------------- C29
\* resume r of the next state was not verified, or did not exist, before
NewlyVerified(r) == r.is_verified /\ \A q \in resumes : q.id = r.id => ~q.is_verified

\* one step of the Resume table, as C29 allows it
C29_Step ==
    /\ \A r \in resumes' : NewlyVerified(r) =>
        /\ \E q \in resumes : q.id = r.id
        /\ out'.op = "VerifyResumeView" /\ out'.status = 200 /\ out'.senior
    /\ out'.op = "ResumeDetailView" =>
        /\ {[id |-> r.id, is_verified |-> r.is_verified,
             student_crm_id |-> r.student_crm_id] : r \in resumes'}
           = {[id |-> r.id, is_verified |-> r.is_verified,
               student_crm_id |-> r.student_crm_id] : r \in resumes}

CrmNumber(id) == CASE id = "42" -> 42 [] id = "43" -> 43 [] OTHER -> 0

\* the Group names the tutor's CRM id among its teachers
AssignedTo(t, g) ==
    /\ CrmNumber(t.tutor_crm_id) # 0
    /\ \E i \in DOMAIN g.teacher_ids.v : g.teacher_ids.v[i] = CrmNumber(t.tutor_crm_id)

\* the Groups the tutor is to see
Visible(t) ==
    IF t.is_senior THEN {g.id : g \in groups}
    ELSE {g.id : g \in {h \in groups : AssignedTo(t, h)}}

ShowsGroups(A, ids) == A.status = 200 /\ A.data = ids

\* C26: get_tutor_groups answers an authenticated tutor with status 200
\* whatever Groups are stored; a senior tutor is shown every Group, a regular
\* tutor exactly the Groups that name the tutor as a teacher.
C26_GroupVisibility ==
    \A t \in tutors :
        ShowsGroups(handle_request(Req("GET", "tutors/groups/",
                                       [header |-> "valid", sub |-> t.phone_number],
                                       1, EmptyBody),
                                   tutors, groups, students, Rs),
                    Visible(t))

\* ---------------------------------------------------------------- C30
\* C30: whatever the CRM answers, a started get_all_groups returns: the page
\* loop of every branch ends after finitely many requests, also when the
\* pages are never empty and report no total, and the branches are visited
\* in the order 1, 2, 3, 4.
C30_Terminates ==
    /\ (ag.pc = "page") ~> (ag.pc = "returned")
    /\ [][ag.pc = "break" /\ ag'.pc = "page" => ag'.branch = ag.branch + 1]_vars

\* the calls in flight
Running == DOMAIN race.run

\* the login answer a call ran against: its own, or the successful one whose
\* token it read from the slot
AnswerUsed(x) ==
    IF x.hit THEN [exc |-> "none", status |-> 200, body |-> "token", token |-> x.cached_token]
    ELSE x.a

\* what the finished call x hands to its caller: the exception it raises, the
\* status of the response it returns, whether the value it returns is a token
Handed(x) ==
    IF x.op = "login" THEN [exc |-> "none", status |-> 0, token |-> Truthy(x.token)]
    ELSE [exc |-> x.exc,
          status |-> IF x.exc # "none" THEN 0 ELSE IF x.nReq >= 2 THEN x.r2.status
                     ELSE x.r1.status,
          token |-> FALSE]

\* what the same call hands over when nothing runs beside it
HandedAlone(x, L, R) ==
    IF x.op = "login" THEN [exc |-> L.exc, status |-> 0, token |-> Truthy(L.ret)]
    ELSE [exc |-> R.exc, status |-> R.resp.status, token |-> FALSE]

SameAsAlone(x) ==
    Handed(x) = HandedAlone(x,
                    login_cached(x.cached_token, EmptyCache, now, cfg, x.a),
                    make_authenticated_request(EmptyCache, now, cfg, "tokA", x.r1,
                                               AnswerUsed(x), x.r2))

\* C25: whatever the interleaving of concurrent login_to_alfa_crm and
\* make_authenticated_request calls, the cache slot is empty or holds a token
\* a CRM login returned, every call makes at most one login request and at
\* most one retry, and a finished call hands its caller what it would hand
\* over running alone against the same CRM answers.
C25_RaceBenign ==
    /\ cache.tok = None \/ (Truthy(cache.tok) /\ cache.tok \in race.returned)
    /\ \A w \in Running :
        /\ race.run[w].nAuth <= 1
        /\ race.run[w].nReq <= 2
        /\ race.run[w].nClear <= 1
        /\ race.run[w].pc = "done" => SameAsAlone(race.run[w])

\* a call that cleared the slot after a 401 found the token another call had
\* stored meanwhile, retried with it and finished, while the other call runs on
C25_Witness ==
    \E w \in Running : \E v \in Running \ {w} :
        /\ race.run[w].op = "request" /\ race.run[w].pc = "done"
        /\ race.run[w].nClear = 1 /\ race.run[w].hit /\ race.run[w].nReq = 2
        /\ race.run[v].nAuth = 1 /\ race.run[v].token = race.run[w].token

====
